---- MODULE Spec2Model ----
(***************************************************************************)
(* Model of the GuardScore risk-assessment client (src/src/api/guardscore.ts) *)
(* of merchantguard-mcp: the client's configuration and demo-mode flag, one *)
(* operation call at a time running from its entry to the remote call's     *)
(* suspension point and from the response to its return, the response       *)
(* normalizers and the deterministic mock generators.                       *)
(*                                                                          *)
(* Encodings.  A string that feeds a checksum is the sequence of its        *)
(* character codes.  An optional field is a set: {} when absent, {v} when   *)
(* present.  Rates and percentages are integers in hundredths, a dispute    *)
(* probability is an integer in units of 0.0001 (the precision toFixed(4)   *)
(* keeps).  Timestamps and free-text descriptions are left out.             *)
(***************************************************************************)
EXTENDS Integers, Sequences, FiniteSets, TLC

VARIABLES
    config,       \* GuardScoreAPI.config
    demoMode,     \* GuardScoreAPI.demoMode
    pc,           \* "idle", "await" (suspended at the remote call) or "done"
    op,           \* the operation of the call in flight
    args,         \* its typed input
    resp,         \* the remote response it observed
    fetchCount,   \* outbound remote calls issued by this call
    mockCount,    \* mock generator invocations of this call
    result,       \* what the call returns
    source,       \* "remote" (normalized payload), "mock" or "none"
    log,          \* levels of the records this call logged, in order
    calls         \* SpecConc: the calls the transport has in flight at once

vars == <<config, demoMode, pc, op, args, resp, fetchCount, mockCount,
          result, source, log, calls>>

-----------------------------------------------------------------------------
(* Bounds of the model. *)

\* longest identifier string drawn as an input
MaxIdLen == 2
\* most insights / rankedActions entries a remote payload carries
MaxRemoteItems == 6
\* thresholds of SpecTier range over 0..MaxThreshold
MaxThreshold == 4
\* calls SpecConc has in flight at once
MaxInFlight == 2

-----------------------------------------------------------------------------
(* Values. *)

\* character codes of "1", "A", "M"
Chars == {49, 65, 77}

StringsUpTo(n) == UNION {[1..k -> Chars] : k \in 0..n}

\* an optional field over S: absent, or present with a value of S
Opt(S) == {{}} \cup {{v} : v \in S}

Val(x) == CHOOSE v \in x : TRUE

\* x ?? d
OrElse(x, d) == IF x = {} THEN d ELSE Val(x)

\* !s for an optional string: undefined or ""
FalsyStr(x) == x = {} \/ x = {<<>>}

Min(a, b) == IF a <= b THEN a ELSE b

Max(a, b) == IF a >= b THEN a ELSE b

\* Math.round of the rational n/d (d > 0): the nearest integer, halves up
RoundDiv(n, d) == (2 * n + d) \div (2 * d)

RECURSIVE SumCodes(_)
SumCodes(s) == IF s = <<>> THEN 0 ELSE Head(s) + SumCodes(Tail(s))

\* [...s].reduce((a, c) => a + c.charCodeAt(0), 0)
Checksum(s) == SumCodes(s)

\* the order critical > high > medium > low, as a number
Riskiness(level) ==
    CASE level = "critical" -> 3
      [] level = "high" -> 2
      [] level = "medium" -> 1
      [] OTHER -> 0

-----------------------------------------------------------------------------
(* Configuration and construction. *)

DefaultThresholds ==
    [autoDeclineThreshold |-> 15, highRiskThreshold |-> 30, mediumRiskThreshold |-> 60]

\* a configuration whose thresholds violate autoDecline < highRisk < mediumRisk
InvertedThresholds ==
    [autoDeclineThreshold |-> 60, highRiskThreshold |-> 30, mediumRiskThreshold |-> 15]

\* apiKey values: absent/empty, the sentinel, a live key
ApiKeys == {"", "demo", "sk_live_1"}

MakeConfig(key, th) ==
    [apiUrl |-> "https://api.merchantguard.ai/v1", apiKey |-> key,
     autoDeclineThreshold |-> th.autoDeclineThreshold,
     highRiskThreshold |-> th.highRiskThreshold,
     mediumRiskThreshold |-> th.mediumRiskThreshold]

\* DemoModeOf without `|| !config.apiKey`
DemoModeSentinelOnly(cfg) == cfg.apiKey = "demo"

\* constructor: this.demoMode = config.apiKey === "demo" || !config.apiKey
DemoModeOf(cfg) == cfg.apiKey = "demo" \/ cfg.apiKey = ""

\* riskLevel with exclusive boundaries
riskLevelExclusive(cfg, score) ==
    IF score < cfg.autoDeclineThreshold THEN "critical"
    ELSE IF score < cfg.highRiskThreshold THEN "high"
    ELSE IF score < cfg.mediumRiskThreshold THEN "medium"
    ELSE "low"

\* riskLevel with its first two tests in the other order
riskLevelHighFirst(cfg, score) ==
    IF score <= cfg.highRiskThreshold THEN "high"
    ELSE IF score <= cfg.autoDeclineThreshold THEN "critical"
    ELSE IF score <= cfg.mediumRiskThreshold THEN "medium"
    ELSE "low"

\* GuardScoreAPI.riskLevel
riskLevel(cfg, score) ==
    IF score <= cfg.autoDeclineThreshold THEN "critical"
    ELSE IF score <= cfg.highRiskThreshold THEN "high"
    ELSE IF score <= cfg.mediumRiskThreshold THEN "medium"
    ELSE "low"

NoArgs == [none |-> TRUE]
NoResp == [kind |-> "none"]
NoResult == [kind |-> "none"]

Slots == 1..MaxInFlight

\* a slot of the transport with no call in it
IdleCall ==
    [pc |-> "idle", op |-> "none", args |-> NoArgs, resp |-> NoResp, fetches |-> 0,
     mocks |-> 0, result |-> NoResult, source |-> "none"]

\* the state right after `new GuardScoreAPI(cfg)`, no call in flight
Constructed(cfg) ==
    /\ calls = [c \in Slots |-> IdleCall]
    /\ config = cfg
    /\ demoMode = DemoModeOf(cfg)
    /\ pc = "idle"
    /\ op = "none"
    /\ args = NoArgs
    /\ resp = NoResp
    /\ fetchCount = 0
    /\ mockCount = 0
    /\ result = NoResult
    /\ source = "none"
    /\ log = <<"info">>

-----------------------------------------------------------------------------
(* Remote responses.  A call to the remote service throws (network error,   *)
(* timeout), answers a non-2xx status, answers 2xx with a body res.json()   *)
(* cannot parse, or answers 2xx with a JSON body.                           *)

NoBody == [shape |-> "none"]

\* the JSON value null: every property access on it throws a TypeError
NullBody == [shape |-> "null"]

Failures ==
    {[kind |-> "throw", status |-> 0, body |-> NoBody],
     [kind |-> "badjson", status |-> 200, body |-> NoBody]}
    \cup {[kind |-> "status", status |-> s, body |-> NoBody] : s \in {401, 403, 500}}

Json(b) == [kind |-> "json", status |-> 200, body |-> b]

\* a list-valued payload field: absent, an array of n items, or a truthy
\* value that is no array (a number, an object), on which slice/map/spread throw
ListField(n) ==
    {[given |-> "absent", items |-> <<>>], [given |-> "scalar", items |-> <<>>]}
    \cup {[given |-> "array", items |-> [i \in 1..k |-> "remote"]] : k \in 0..n}

\* what a handler hands back: the result, where it came from, how many mock
\* invocations it took and the levels it logged after the entry record
MockOutcome(m, logs) == [result |-> m, source |-> "mock", mocks |-> 1, logs |-> logs]

RemoteOutcome(n) == [result |-> n, source |-> "remote", mocks |-> 0, logs |-> <<>>]

\* logger.warn(...) for every failure, 401/403 included
WarnAlways(r) == <<"warn">>

\* InfoOnAuth testing res.status === 401 only
InfoOnAuth401Only(r) ==
    IF r.kind = "status" /\ r.status = 401 THEN <<"info">> ELSE <<"warn">>

\* 401/403: logger.info(...); any other status or a thrown error: logger.warn(...)
InfoOnAuth(r) ==
    IF r.kind = "status" /\ r.status \in {401, 403} THEN <<"info">> ELSE <<"warn">>

-----------------------------------------------------------------------------
(* Categories and payment rails. *)

Rails == {"card", "stablecoin", "crypto", "ach", "wire", "unknown"}

\* String.prototype.toLowerCase on the categories of the model
ToLower(c) ==
    CASE c = "GAMBLING" -> "gambling"
      [] c = "Digital_Goods" -> "digital_goods"
      [] OTHER -> c

-----------------------------------------------------------------------------
(* 1. Transaction risk scoring. *)

Factor(name, sev) == [factor |-> name, severity |-> sev]

\* RecommendedAction sending medium to review as well
RecommendedActionReviewMedium(level) ==
    IF level = "critical" THEN "decline"
    ELSE IF level = "high" \/ level = "medium" THEN "review" ELSE "approve"

\* level === "critical" ? "decline" : level === "high" ? "review" : "approve"
RecommendedAction(level) ==
    IF level = "critical" THEN "decline" ELSE IF level = "high" THEN "review" ELSE "approve"

mapSeverity(sev) ==
    CASE sev = "critical" -> "critical"
      [] sev = "warning" -> "high"
      [] sev = "info" -> "medium"
      [] OTHER -> "low"

\* ValuePenalty with a second `if` in place of the `else if`
ValuePenaltyCumulative(a) ==
    IF a.amount > 10000
    THEN [d |-> 30, f |-> <<Factor("high_value", "high"), Factor("elevated_value", "medium")>>]
    ELSE IF a.amount > 5000 THEN [d |-> 10, f |-> <<Factor("elevated_value", "medium")>>]
    ELSE [d |-> 0, f |-> <<>>]

\* if (args.amount > 10000) {...} else if (args.amount > 5000) {...}
ValuePenalty(a) ==
    IF a.amount > 10000 THEN [d |-> 20, f |-> <<Factor("high_value", "high")>>]
    ELSE IF a.amount > 5000 THEN [d |-> 10, f |-> <<Factor("elevated_value", "medium")>>]
    ELSE [d |-> 0, f |-> <<>>]

\* mockScoreTransaction taking 30 points, not 15, for an unknown merchant
mockScoreTransactionUnknownMerchant30(cfg, a) ==
    LET value == ValuePenalty(a)
        rail == IF a.payment_rail = "crypto" \/ a.payment_rail = "stablecoin"
                THEN [d |-> 5, f |-> <<Factor("alternative_rail", "low")>>]
                ELSE [d |-> 0, f |-> <<>>]
        agent == IF ~FalsyStr(a.agent_id)
                 THEN [d |-> 3, f |-> <<Factor("agent_initiated", "low")>>]
                 ELSE [d |-> 0, f |-> <<>>]
        merchant == IF FalsyStr(a.merchant_id)
                    THEN [d |-> 30, f |-> <<Factor("unknown_merchant", "high")>>]
                    ELSE [d |-> 0, f |-> <<>>]
        category == IF ToLower(a.merchant_category) \in
                         {"gambling", "adult", "crypto_exchange", "pharmaceuticals", "weapons"}
                    THEN [d |-> 15, f |-> <<Factor("high_risk_category", "high")>>]
                    ELSE [d |-> 0, f |-> <<>>]
        score == Max(0, Min(100, 85 - value.d - rail.d - agent.d - merchant.d - category.d))
        level == riskLevel(cfg, score)
    IN  [kind |-> "TransactionRiskResult",
         risk_score |-> score,
         risk_level |-> level,
         recommended_action |-> RecommendedAction(level),
         risk_factors |-> value.f \o rail.f \o agent.f \o merchant.f \o category.f,
         guardscore_version |-> "1.0.0-mock"]

mockScoreTransaction(cfg, a) ==
    LET value == ValuePenalty(a)
        rail == IF a.payment_rail = "crypto" \/ a.payment_rail = "stablecoin"
                THEN [d |-> 5, f |-> <<Factor("alternative_rail", "low")>>]
                ELSE [d |-> 0, f |-> <<>>]
        agent == IF ~FalsyStr(a.agent_id)
                 THEN [d |-> 3, f |-> <<Factor("agent_initiated", "low")>>]
                 ELSE [d |-> 0, f |-> <<>>]
        merchant == IF FalsyStr(a.merchant_id)
                    THEN [d |-> 15, f |-> <<Factor("unknown_merchant", "high")>>]
                    ELSE [d |-> 0, f |-> <<>>]
        category == IF ToLower(a.merchant_category) \in
                         {"gambling", "adult", "crypto_exchange", "pharmaceuticals", "weapons"}
                    THEN [d |-> 15, f |-> <<Factor("high_risk_category", "high")>>]
                    ELSE [d |-> 0, f |-> <<>>]
        score == Max(0, Min(100, 85 - value.d - rail.d - agent.d - merchant.d - category.d))
        level == riskLevel(cfg, score)
    IN  [kind |-> "TransactionRiskResult",
         risk_score |-> score,
         risk_level |-> level,
         recommended_action |-> RecommendedAction(level),
         risk_factors |-> value.f \o rail.f \o agent.f \o merchant.f \o category.f,
         guardscore_version |-> "1.0.0-mock"]

\* the remote normalization throws: data is null, or insights has no slice
ScoreNormalizeThrows(b) == b.shape = "null" \/ b.insights.given = "scalar"

\* NormalizeScoreTransaction without .slice(0, 5)
NormalizeScoreTransactionUnsliced(cfg, a, b) ==
    LET score == OrElse(b.score, 75)
        level == riskLevel(cfg, score)
        insights == b.insights.items
        factors == [i \in 1..Len(insights) |-> Factor("remote_insight", mapSeverity(insights[i]))]
    IN  [kind |-> "TransactionRiskResult",
         risk_score |-> score,
         risk_level |-> level,
         recommended_action |-> RecommendedAction(level),
         risk_factors |-> factors \o (IF ~FalsyStr(a.agent_id)
                                      THEN <<Factor("agent_initiated", "low")>> ELSE <<>>),
         guardscore_version |-> "2.0"]

\* NormalizeScoreTransaction classifying data.score before `?? 75` applies
NormalizeScoreTransactionTierOfRaw(cfg, a, b) ==
    LET score == OrElse(b.score, 75)
        level == riskLevel(cfg, OrElse(b.score, 0))
        insights == b.insights.items
        taken == SubSeq(insights, 1, Min(5, Len(insights)))
        factors == [i \in 1..Len(taken) |-> Factor("remote_insight", mapSeverity(taken[i]))]
    IN  [kind |-> "TransactionRiskResult",
         risk_score |-> score,
         risk_level |-> level,
         recommended_action |-> RecommendedAction(level),
         risk_factors |-> factors \o (IF ~FalsyStr(a.agent_id)
                                      THEN <<Factor("agent_initiated", "low")>> ELSE <<>>),
         guardscore_version |-> "2.0"]

NormalizeScoreTransaction(cfg, a, b) ==
    LET score == OrElse(b.score, 75)
        level == riskLevel(cfg, score)
        insights == b.insights.items
        taken == SubSeq(insights, 1, Min(5, Len(insights)))
        factors == [i \in 1..Len(taken) |-> Factor("remote_insight", mapSeverity(taken[i]))]
    IN  [kind |-> "TransactionRiskResult",
         risk_score |-> score,
         risk_level |-> level,
         recommended_action |-> RecommendedAction(level),
         risk_factors |-> factors \o (IF ~FalsyStr(a.agent_id)
                                      THEN <<Factor("agent_initiated", "low")>> ELSE <<>>),
         guardscore_version |-> "2.0"]

\* scoreTransaction from the response of its remote call to its return
scoreTransactionOutcome(cfg, a, r) ==
    IF r.kind = "json" /\ ~ScoreNormalizeThrows(r.body)
    THEN RemoteOutcome(NormalizeScoreTransaction(cfg, a, r.body))
    ELSE MockOutcome(mockScoreTransaction(cfg, a), WarnAlways(r))

ScoreArgs ==
    [amount : {100, 5001, 15000},
     merchant_category : {"e-commerce", "gambling", "GAMBLING"},
     payment_rail : {"card", "crypto"},
     merchant_id : {{}, {<<77, 49>>}},
     agent_id : {{}, {<<>>}, {<<65, 49>>}}]

ScoreBodies ==
    {NullBody} \cup
    [shape : {"object"}, score : Opt({0 - 5, 15, 50, 150}), insights : ListField(MaxRemoteItems)]

-----------------------------------------------------------------------------
(* 2. Merchant lookup. *)

\* the character codes of "unknown"
UnknownId == <<117, 110, 107, 110, 111, 119, 110>>

\* Identifier preferring the merchant's name to its id
IdentifierNameFirst(a) ==
    IF ~FalsyStr(a.merchant_name) THEN Val(a.merchant_name)
    ELSE IF ~FalsyStr(a.merchant_id) THEN Val(a.merchant_id)
    ELSE IF ~FalsyStr(a.website) THEN Val(a.website)
    ELSE UnknownId

\* args.merchant_id || args.merchant_name || args.website || "unknown"
Identifier(a) ==
    IF ~FalsyStr(a.merchant_id) THEN Val(a.merchant_id)
    ELSE IF ~FalsyStr(a.merchant_name) THEN Val(a.merchant_name)
    ELSE IF ~FalsyStr(a.website) THEN Val(a.website)
    ELSE UnknownId

mapVampStatus(status) ==
    IF status = {"at_risk"} \/ status = {"excessive"} THEN "excessive"
    ELSE IF status = {"warning"} \/ status = {"monitored"} THEN "monitored"
    ELSE "standard"

mockLookupMerchant(cfg, a) ==
    LET identifier == Identifier(a)
        hash == Checksum(identifier)
        guardscore == 40 + (hash % 55)
    IN  [kind |-> "MerchantProfile",
         \* `MG-${hash.toString(16).toUpperCase()}`: "MG-", then the checksum
         merchant_id |-> IF ~FalsyStr(a.merchant_id) THEN Val(a.merchant_id)
                         ELSE <<77, 71, 45>> \o <<hash>>,
         name |-> IF ~FalsyStr(a.merchant_name) THEN Val(a.merchant_name) ELSE identifier,
         guardscore |-> guardscore,
         risk_level |-> riskLevel(cfg, guardscore),
         verification_status |-> IF guardscore > 70 THEN "verified"
                                 ELSE IF guardscore > 50 THEN "pending" ELSE "unverified",
         chargeback_rate |-> 10 + (100 - guardscore) * 2,
         industry |-> "e-commerce",
         vamp_status |-> IF guardscore > 70 THEN "standard"
                         ELSE IF guardscore > 50 THEN "monitored" ELSE "excessive"]

LookupNormalizeThrows(b) == b.shape = "null"

\* (the payloads of the model carry no merchant_id of their own)
NormalizeLookupMerchant(cfg, a, b) ==
    LET guardscore == OrElse(b.guardscore, 50)
    IN  [kind |-> "MerchantProfile",
         merchant_id |-> Val(a.merchant_id),
         name |-> IF ~FalsyStr(a.merchant_name) THEN Val(a.merchant_name) ELSE Identifier(a),
         guardscore |-> guardscore,
         risk_level |-> riskLevel(cfg, guardscore),
         verification_status |-> IF b.kyb_verified THEN "verified" ELSE "pending",
         chargeback_rate |-> OrElse(b.chargeback_rate, 50),
         industry |-> "e-commerce",
         vamp_status |-> mapVampStatus(b.vamp_status)]

\* lookupMerchantOutcome that takes a payload without guardscore for a failure
lookupMerchantOutcomeStrict(cfg, a, r) ==
    IF r.kind = "json" /\ ~LookupNormalizeThrows(r.body) /\ r.body.guardscore # {}
    THEN RemoteOutcome(NormalizeLookupMerchant(cfg, a, r.body))
    ELSE MockOutcome(mockLookupMerchant(cfg, a), WarnAlways(r))

\* lookupMerchant from the response of its remote call to its return
lookupMerchantOutcome(cfg, a, r) ==
    IF r.kind = "json" /\ ~LookupNormalizeThrows(r.body)
    THEN RemoteOutcome(NormalizeLookupMerchant(cfg, a, r.body))
    ELSE MockOutcome(mockLookupMerchant(cfg, a), WarnAlways(r))

\* LookupIssuesRemote without `&& args.merchant_id`
LookupIssuesRemoteAlways(demo, a) == ~demo

\* lookupMerchant issues its remote call: !this.demoMode && args.merchant_id
LookupIssuesRemote(demo, a) == ~demo /\ ~FalsyStr(a.merchant_id)

LookupArgs ==
    [merchant_id : Opt(StringsUpTo(MaxIdLen - 1)),
     merchant_name : Opt({<<>>, <<65, 49>>}),
     website : Opt({<<77>>})]

LookupBodies ==
    {NullBody} \cup
    [shape : {"object"}, guardscore : Opt({0 - 10, 20, 120}), kyb_verified : BOOLEAN,
     chargeback_rate : Opt({120}), vamp_status : Opt({"at_risk", "warning"})]

-----------------------------------------------------------------------------
(* 3. Agent verification. *)

\* mapCapability ranking PAYMENT_EXECUTE with PAYMENT_INITIATE
mapCapabilityExecuteElevated(cap) ==
    IF cap = {"ORCHESTRATE"} THEN "full"
    ELSE IF cap = {"PAYMENT_EXECUTE"} \/ cap = {"PAYMENT_INITIATE"} THEN "elevated"
    ELSE IF cap = {"DATA_WRITE"} THEN "standard"
    ELSE IF cap = {"READ_ONLY"} THEN "basic"
    ELSE "none"

mapCapability(cap) ==
    IF cap = {"PAYMENT_EXECUTE"} \/ cap = {"ORCHESTRATE"} THEN "full"
    ELSE IF cap = {"PAYMENT_INITIATE"} THEN "elevated"
    ELSE IF cap = {"DATA_WRITE"} THEN "standard"
    ELSE IF cap = {"READ_ONLY"} THEN "basic"
    ELSE "none"

\* mockVerifyAgent with the spending limit on the cut points of the
\* authorization level
mockVerifyAgentLimitByAuthorization(cfg, a) ==
    LET hash == Checksum(a.agent_id)
        trustScore == 50 + (hash % 45)
        amountFlag == IF a.transaction_amount # {} /\ Val(a.transaction_amount) # 0
                         /\ Val(a.transaction_amount) > 5000
                      THEN <<"transaction_exceeds_typical_agent_limit">> ELSE <<>>
        actionFlag == IF ToLower(a.requesting_action) \in
                           {"refund_all", "delete_account", "transfer_funds", "modify_pricing"}
                      THEN <<"high_privilege_action_requested">> ELSE <<>>
    IN  [kind |-> "AgentVerification",
         agent_id |-> a.agent_id,
         trust_score |-> trustScore,
         verification_status |-> IF trustScore > 80 THEN "verified"
                                 ELSE IF trustScore > 60 THEN "pending" ELSE "unverified",
         authorization_level |-> IF trustScore > 85 THEN "full"
                                 ELSE IF trustScore > 70 THEN "standard"
                                 ELSE IF trustScore > 50 THEN "basic" ELSE "none",
         spending_limit |-> IF trustScore > 85 THEN 10000
                            ELSE IF trustScore > 70 THEN 1000 ELSE 100,
         spending_limit_currency |-> "USD",
         anomaly_flags |-> amountFlag \o actionFlag]

mockVerifyAgent(cfg, a) ==
    LET hash == Checksum(a.agent_id)
        trustScore == 50 + (hash % 45)
        amountFlag == IF a.transaction_amount # {} /\ Val(a.transaction_amount) # 0
                         /\ Val(a.transaction_amount) > 5000
                      THEN <<"transaction_exceeds_typical_agent_limit">> ELSE <<>>
        actionFlag == IF ToLower(a.requesting_action) \in
                           {"refund_all", "delete_account", "transfer_funds", "modify_pricing"}
                      THEN <<"high_privilege_action_requested">> ELSE <<>>
    IN  [kind |-> "AgentVerification",
         agent_id |-> a.agent_id,
         trust_score |-> trustScore,
         verification_status |-> IF trustScore > 80 THEN "verified"
                                 ELSE IF trustScore > 60 THEN "pending" ELSE "unverified",
         authorization_level |-> IF trustScore > 85 THEN "full"
                                 ELSE IF trustScore > 70 THEN "standard"
                                 ELSE IF trustScore > 50 THEN "basic" ELSE "none",
         spending_limit |-> IF trustScore > 80 THEN 10000
                            ELSE IF trustScore > 60 THEN 1000 ELSE 100,
         spending_limit_currency |-> "USD",
         anomaly_flags |-> amountFlag \o actionFlag]

\* data is null, or requiredScreenings is truthy and cannot be spread
VerifyNormalizeThrows(b) == b.shape = "null" \/ b.requiredScreenings.given = "scalar"

NormalizeVerifyAgent(cfg, a, b) ==
    LET verdict == b.verdict
        capLevel == b.capabilityLevel
    IN  [kind |-> "AgentVerification",
         agent_id |-> a.agent_id,
         trust_score |-> IF verdict = {"ALLOW"} THEN 85
                         ELSE IF verdict = {"ENHANCED_SCREENING"} THEN 55 ELSE 20,
         verification_status |-> IF verdict = {"ALLOW"} THEN "verified"
                                 ELSE IF verdict = {"DENY"} THEN "suspended" ELSE "pending",
         authorization_level |-> mapCapability(capLevel),
         spending_limit |-> IF capLevel = {"PAYMENT_EXECUTE"} THEN 10000
                            ELSE IF capLevel = {"PAYMENT_INITIATE"} THEN 1000 ELSE 100,
         spending_limit_currency |-> "USD",
         anomaly_flags |-> (IF b.denialReason # {} THEN <<Val(b.denialReason)>> ELSE <<>>)
                           \o b.requiredScreenings.items]

\* verifyAgentOutcome whose fallback after a 401/403 withdraws the agent's
\* authorization
verifyAgentOutcomeRevokingOnAuth(cfg, a, r) ==
    IF r.kind = "json" /\ ~VerifyNormalizeThrows(r.body)
    THEN RemoteOutcome(NormalizeVerifyAgent(cfg, a, r.body))
    ELSE IF r.kind = "status" /\ r.status \in {401, 403}
    THEN MockOutcome([mockVerifyAgent(cfg, a) EXCEPT !.verification_status = "unverified",
                                                    !.authorization_level = "none"],
                     InfoOnAuth(r))
    ELSE MockOutcome(mockVerifyAgent(cfg, a), InfoOnAuth(r))

\* verifyAgent from the response of its remote call to its return
verifyAgentOutcome(cfg, a, r) ==
    IF r.kind = "json" /\ ~VerifyNormalizeThrows(r.body)
    THEN RemoteOutcome(NormalizeVerifyAgent(cfg, a, r.body))
    ELSE MockOutcome(mockVerifyAgent(cfg, a), InfoOnAuth(r))

VerifyArgs ==
    [agent_id : StringsUpTo(MaxIdLen),
     requesting_action : {"purchase", "transfer_funds"},
     transaction_amount : Opt({6000})]

VerifyBodies ==
    {NullBody} \cup
    [shape : {"object"},
     verdict : Opt({"ALLOW", "ENHANCED_SCREENING", "DENY"}),
     capabilityLevel : Opt({"PAYMENT_EXECUTE", "ORCHESTRATE", "PAYMENT_INITIATE",
                            "DATA_WRITE"}),
     denialReason : Opt({"denied"}),
     requiredScreenings : {[given |-> "absent", items |-> <<>>],
                           [given |-> "array", items |-> <<"remote">>]}]
    \cup
    [shape : {"object"}, verdict : {{"DENY"}}, capabilityLevel : {{}},
     denialReason : {{}}, requiredScreenings : {[given |-> "scalar", items |-> <<>>]}]

-----------------------------------------------------------------------------
(* 4. Dispute prediction.  Probabilities are in units of 0.0001; the remote *)
(* currentVampPct is in hundredths of a percent, so currentVamp / 100 in    *)
(* units of 0.0001 is the same integer.                                     *)

\* probability > 0.15 ? critical : > 0.10 ? high : > 0.05 ? medium : low
DisputeLevel(probability) ==
    IF probability > 1500 THEN "critical"
    ELSE IF probability > 1000 THEN "high"
    ELSE IF probability > 500 THEN "medium"
    ELSE "low"

\* args.is_recurring as a condition: present and true
Recurring(a) == a.is_recurring = {TRUE}

mockPredictDispute(cfg, a) ==
    LET amount == IF a.transaction_amount > 500
                  THEN [d |-> 300, f |-> <<"enable_3ds_over_500">>] ELSE [d |-> 0, f |-> <<>>]
        category == IF ToLower(a.merchant_category) \in
                         {"travel", "digital_goods", "subscription", "gambling"}
                    THEN [d |-> 500, f |-> <<"enhance_order_confirmation">>]
                    ELSE [d |-> 0, f |-> <<>>]
        recurring == IF a.payment_rail = "card" /\ Recurring(a)
                     THEN [d |-> 400, f |-> <<"pre_billing_reminder">>] ELSE [d |-> 0, f |-> <<>>]
        rail == IF a.payment_rail = "stablecoin" \/ a.payment_rail = "crypto"
                THEN [d |-> 0 - 100, f |-> <<"escrow_resolution">>] ELSE [d |-> 0, f |-> <<>>]
        probability == Min(9900, Max(100, 200 + amount.d + category.d + recurring.d + rail.d))
    IN  [kind |-> "DisputePrediction",
         dispute_probability |-> probability,
         predicted_dispute_type |->
             IF probability > 500
             THEN IF Recurring(a) THEN "subscription_canceled"
                  ELSE IF a.merchant_category = "digital_goods" THEN "product_not_as_described"
                  ELSE "fraud"
             ELSE "null",
         risk_level |-> DisputeLevel(probability),
         preventive_actions |-> amount.f \o category.f \o recurring.f \o rail.f,
         model_version |-> "1.0.0-mock"]

\* data.simulation of the remote simulator's payload: missing, or an object
\* with its fields present or not
Simulations(currentVamps, projectedVamps) ==
    {[present |-> FALSE, currentVampPct |-> {}, projectedVampPct |-> {},
      rankedActions |-> [given |-> "absent", items |-> <<>>]]}
    \cup [present : {TRUE}, currentVampPct : Opt(currentVamps),
          projectedVampPct : Opt(projectedVamps),
          rankedActions : ListField(MaxRemoteItems)]

\* data is null, or rankedActions is truthy and has no map
SimNormalizeThrows(b) ==
    b.shape = "null" \/ (b.simulation.present /\ b.simulation.rankedActions.given = "scalar")

\* `if (sim)`: the payload carries a simulation
HasSimulation(b) == b.simulation.present

DefaultPreventiveActions == <<"enable_3ds", "implement_rdr", "add_velocity_checks">>

\* NormalizePredictDispute without Math.min(0.99, Math.max(0.01, ...))
NormalizePredictDisputeUnclamped(cfg, a, b) ==
    [kind |-> "DisputePrediction",
     dispute_probability |-> OrElse(b.simulation.currentVampPct, 50),
     predicted_dispute_type |-> IF Recurring(a) THEN "subscription_canceled" ELSE "fraud",
     risk_level |-> DisputeLevel(OrElse(b.simulation.currentVampPct, 50)),
     preventive_actions |-> DefaultPreventiveActions,
     model_version |-> "MerchantGuard VAMP Simulator v1.0"]

\* NormalizePredictDispute reporting no type at a probability of 0.05 or less
NormalizePredictDisputeNullWhenLow(cfg, a, b) ==
    LET sim == b.simulation
        currentVamp == OrElse(sim.currentVampPct, 50)
        probability == Min(9900, Max(100, currentVamp))
        ranked == sim.rankedActions.items
        actions == SubSeq(ranked, 1, Min(5, Len(ranked)))
    IN  [kind |-> "DisputePrediction",
         dispute_probability |-> probability,
         predicted_dispute_type |-> IF probability <= 500 THEN "null"
                                    ELSE IF Recurring(a) THEN "subscription_canceled"
                                    ELSE "fraud",
         risk_level |-> DisputeLevel(probability),
         preventive_actions |-> IF Len(actions) > 0 THEN actions ELSE DefaultPreventiveActions,
         model_version |-> "MerchantGuard VAMP Simulator v1.0"]

NormalizePredictDispute(cfg, a, b) ==
    LET sim == b.simulation
        currentVamp == OrElse(sim.currentVampPct, 50)
        probability == Min(9900, Max(100, currentVamp))
        ranked == sim.rankedActions.items
        actions == SubSeq(ranked, 1, Min(5, Len(ranked)))
    IN  [kind |-> "DisputePrediction",
         dispute_probability |-> probability,
         predicted_dispute_type |-> IF Recurring(a) THEN "subscription_canceled" ELSE "fraud",
         risk_level |-> DisputeLevel(probability),
         preventive_actions |-> IF Len(actions) > 0 THEN actions ELSE DefaultPreventiveActions,
         model_version |-> "MerchantGuard VAMP Simulator v1.0"]

\* predictDispute from the response of its remote call to its return
predictDisputeOutcome(cfg, a, r) ==
    IF r.kind = "json" /\ ~SimNormalizeThrows(r.body) /\ HasSimulation(r.body)
    THEN RemoteOutcome(NormalizePredictDispute(cfg, a, r.body))
    ELSE MockOutcome(mockPredictDispute(cfg, a), WarnAlways(r))

DisputeArgs ==
    [transaction_amount : {100, 501},
     merchant_category : {"e-commerce", "digital_goods", "Digital_Goods"},
     payment_rail : {"card", "stablecoin", "ach"},
     is_recurring : Opt(BOOLEAN)]

DisputeBodies ==
    {NullBody} \cup
    [shape : {"object"}, simulation : Simulations({0 - 20, 600, 1200, 2000, 12000}, {})]

-----------------------------------------------------------------------------
(* 5. Velocity check. *)

\* The pairs <<baseline, current>>, over every baseline 15..44 and every
\* integer count, at which 100 - (current / baseline - 1) * 30 lies exactly
\* half-way between two integers within 0..100 while its evaluation in IEEE
\* double precision falls just below the half (20, 49: 56.49999999999999),
\* so that Math.round goes down.  At every other pair Math.round of the
\* double is the exact value rounded to nearest, halves up.
FloatBelowHalf ==
    {<<20, 49>>, <<20, 59>>, <<20, 83>>, <<24, 62>>, <<24, 74>>,
     <<36, 93>>, <<36, 111>>, <<40, 98>>, <<40, 118>>, <<40, 166>>}

\* mockCheckVelocity with a synthetic count of baseline + (hash % 20) * 5 - 5
mockCheckVelocitySteepSynthetic(cfg, a) ==
    LET hash == Checksum(a.entity_id)
        baseline == 15 + (hash % 30)
        current == OrElse(a.transaction_count, baseline + (hash % 20) * 5 - 5)
        anomaly == 2 * current > 5 * baseline
        scoreNum == 130 * baseline - 30 * current
        score == Min(100 * baseline, Max(0, scoreNum))
    IN  [kind |-> "VelocityResult",
         entity_id |-> a.entity_id,
         velocity_score |-> RoundDiv(score, baseline)
             - (IF <<baseline, current>> \in FloatBelowHalf THEN 1 ELSE 0),
         anomaly_detected |-> anomaly,
         transactions_in_window |-> current,
         baseline_average |-> baseline,
         time_window |-> a.time_window]

\* mockCheckVelocity with `||` for `??`: a supplied count of 0 gives way to
\* the synthetic count
mockCheckVelocityZeroAsAbsent(cfg, a) ==
    LET hash == Checksum(a.entity_id)
        baseline == 15 + (hash % 30)
        synthetic == baseline + (hash % 20) - 5
        current == IF a.transaction_count = {} \/ a.transaction_count = {0}
                   THEN synthetic ELSE Val(a.transaction_count)
        anomaly == 2 * current > 5 * baseline
        scoreNum == 130 * baseline - 30 * current
        score == Min(100 * baseline, Max(0, scoreNum))
    IN  [kind |-> "VelocityResult",
         entity_id |-> a.entity_id,
         velocity_score |-> RoundDiv(score, baseline)
             - (IF <<baseline, current>> \in FloatBelowHalf THEN 1 ELSE 0),
         anomaly_detected |-> anomaly,
         transactions_in_window |-> current,
         baseline_average |-> baseline,
         time_window |-> a.time_window]

mockCheckVelocity(cfg, a) ==
    LET hash == Checksum(a.entity_id)
        baseline == 15 + (hash % 30)
        current == OrElse(a.transaction_count, baseline + (hash % 20) - 5)
        \* ratio = current / baseline; 100 - (ratio - 1) * 30 = scoreNum / baseline
        anomaly == 2 * current > 5 * baseline
        scoreNum == 130 * baseline - 30 * current
        score == Min(100 * baseline, Max(0, scoreNum))
    IN  [kind |-> "VelocityResult",
         entity_id |-> a.entity_id,
         velocity_score |-> RoundDiv(score, baseline)
             - (IF <<baseline, current>> \in FloatBelowHalf THEN 1 ELSE 0),
         anomaly_detected |-> anomaly,
         transactions_in_window |-> current,
         baseline_average |-> baseline,
         time_window |-> a.time_window]

VelocityArgs ==
    [entity_id : StringsUpTo(MaxIdLen),
     time_window : {"24h"},
     transaction_count : Opt({0 - 3, 0, 20, 60, 200})]

-----------------------------------------------------------------------------
(* 6. Cross-rail fraud detection. *)

\* the character codes of a payment rail's name
RailChars(rail) ==
    CASE rail = "card" -> <<99, 97, 114, 100>>
      [] rail = "stablecoin" -> <<115, 116, 97, 98, 108, 101, 99, 111, 105, 110>>
      [] rail = "crypto" -> <<99, 114, 121, 112, 116, 111>>
      [] rail = "ach" -> <<97, 99, 104>>
      [] rail = "wire" -> <<119, 105, 114, 101>>
      [] OTHER -> UnknownId

Range(seq) == {seq[i] : i \in 1..Len(seq)}

RECURSIVE SumOver(_, _)
SumOver(f, S) ==
    IF S = {} THEN 0 ELSE LET x == CHOOSE y \in S : TRUE IN f[x] + SumOver(f, S \ {x})

MaxOver(f, S) == CHOOSE m \in {f[x] : x \in S} : \A y \in S : f[y] <= m

MinOver(f, S) == CHOOSE m \in {f[x] : x \in S} : \A y \in S : f[y] >= m

mapRiskLevel(level) ==
    IF level = {"critical"} THEN "critical"
    ELSE IF level = {"high"} THEN "high"
    ELSE IF level = {"medium"} THEN "medium"
    ELSE "low"

\* mockCheckCrossRail counting the distinct rails for the 3+ rail pattern
mockCheckCrossRailDistinctCount(cfg, a) ==
    LET rails == a.payment_rails
        keys == Range(rails)
        railScores == [r \in keys |-> 50 + (Checksum(a.entity_id \o RailChars(r)) % 45)]
        maxDiff == MaxOver(railScores, keys) - MinOver(railScores, keys)
        patterns ==
            (IF maxDiff > 30 THEN <<"rail_hopping">> ELSE <<>>)
            \o (IF "card" \in keys /\ "crypto" \in keys THEN <<"card_crypto_mixing">> ELSE <<>>)
            \o (IF Cardinality(keys) >= 3 THEN <<"three_plus_rails">> ELSE <<>>)
        n == Cardinality(keys)
        num == SumOver(railScores, keys) - Len(patterns) * 10 * n
        crossRailScore == RoundDiv(Max(0, num), n)
    IN  [kind |-> "CrossRailResult",
         entity_id |-> a.entity_id,
         cross_rail_risk_score |-> crossRailScore,
         risk_level |-> riskLevel(cfg, crossRailScore),
         rails_analyzed |-> rails,
         suspicious_patterns |-> patterns,
         rail_scores |-> railScores]

mockCheckCrossRail(cfg, a) ==
    LET rails == a.payment_rails
        keys == Range(rails)
        \* railScores[rail] = ...: one key per distinct rail
        railScores == [r \in keys |-> 50 + (Checksum(a.entity_id \o RailChars(r)) % 45)]
        maxDiff == MaxOver(railScores, keys) - MinOver(railScores, keys)
        patterns ==
            (IF maxDiff > 30 THEN <<"rail_hopping">> ELSE <<>>)
            \o (IF "card" \in keys /\ "crypto" \in keys THEN <<"card_crypto_mixing">> ELSE <<>>)
            \o (IF Len(rails) >= 3 THEN <<"three_plus_rails">> ELSE <<>>)
        \* avgScore - patterns.length * 10, over Object.values(railScores)
        n == Cardinality(keys)
        num == SumOver(railScores, keys) - Len(patterns) * 10 * n
        crossRailScore == RoundDiv(Max(0, num), n)
    IN  [kind |-> "CrossRailResult",
         entity_id |-> a.entity_id,
         cross_rail_risk_score |-> crossRailScore,
         risk_level |-> riskLevel(cfg, crossRailScore),
         rails_analyzed |-> rails,
         suspicious_patterns |-> patterns,
         rail_scores |-> railScores]

CrossRailNormalizeThrows(b) == b.shape = "null"

\* NormalizeCheckCrossRail scoring the first two rails only
NormalizeCheckCrossRailFirstTwo(cfg, a, b) ==
    LET crossRailScore == IF b.decision = {"allow"} THEN 80
                          ELSE IF b.decision = {"allow_with_conditions"} THEN 55 ELSE 25
    IN  [kind |-> "CrossRailResult",
         entity_id |-> a.entity_id,
         cross_rail_risk_score |-> crossRailScore,
         risk_level |-> mapRiskLevel(b.risk_level),
         rails_analyzed |-> a.payment_rails,
         suspicious_patterns |-> b.reasons.items,
         rail_scores |-> [r \in {a.payment_rails[1], a.payment_rails[2]} |->
                             crossRailScore + (IF r = "crypto" THEN 0 - 10
                                               ELSE IF r = "card" THEN 5 ELSE 0)]]

NormalizeCheckCrossRail(cfg, a, b) ==
    LET crossRailScore == IF b.decision = {"allow"} THEN 80
                          ELSE IF b.decision = {"allow_with_conditions"} THEN 55 ELSE 25
    IN  [kind |-> "CrossRailResult",
         entity_id |-> a.entity_id,
         cross_rail_risk_score |-> crossRailScore,
         risk_level |-> mapRiskLevel(b.risk_level),
         rails_analyzed |-> a.payment_rails,
         suspicious_patterns |-> b.reasons.items,
         rail_scores |-> [r \in Range(a.payment_rails) |->
                             crossRailScore + (IF r = "crypto" THEN 0 - 10
                                               ELSE IF r = "card" THEN 5 ELSE 0)]]

\* checkCrossRail from the response of its remote call to its return
checkCrossRailOutcome(cfg, a, r) ==
    IF r.kind = "json" /\ ~CrossRailNormalizeThrows(r.body)
    THEN RemoteOutcome(NormalizeCheckCrossRail(cfg, a, r.body))
    ELSE MockOutcome(mockCheckCrossRail(cfg, a), InfoOnAuth(r))

\* payment_rails: z.array(paymentRailEnum).min(2), repeats allowed
CrossRailArgs ==
    [entity_id : StringsUpTo(MaxIdLen - 1),
     payment_rails : {<<"card", "crypto">>, <<"card", "card">>, <<"ach", "wire">>,
                      <<"card", "stablecoin", "crypto">>, <<"wire", "card", "wire">>}]

CrossRailBodies ==
    {NullBody} \cup
    [shape : {"object"},
     decision : Opt({"allow", "allow_with_conditions", "deny"}),
     risk_level : Opt({"critical", "high", "medium", "low"}),
     reasons : {[given |-> "absent", items |-> <<>>],
                [given |-> "array", items |-> <<"remote">>]}]

-----------------------------------------------------------------------------
(* 7. VAMP analysis.  Rates are in hundredths of a percent point.           *)

\* mockAnalyzeVAMP with the boundaries 0.65 and 0.90 in the lower tier
mockAnalyzeVAMPBoundaryBelow(cfg, a) ==
    LET hash == Checksum(a.merchant_id)
        fraudRate == 10 + (hash % 20) * 5
        disputeRate == 20 + (hash % 25) * 4
        vampScore == RoundDiv(10000 - fraudRate * 20 - disputeRate * 15, 100)
        tier == IF fraudRate <= 65
                THEN [status |-> "standard", distance |-> 65 - fraudRate, actions |-> <<>>]
                ELSE IF fraudRate <= 90
                THEN [status |-> "monitored", distance |-> 90 - fraudRate,
                      actions |-> <<"implement_rdr", "enable_cdrn_alerts">>]
                ELSE [status |-> "excessive", distance |-> 0,
                      actions |-> <<"URGENT_immediate_remediation", "deploy_3ds",
                                    "velocity_controls", "temporary_limits">>]
    IN  [kind |-> "VAMPAnalysis",
         merchant_id |-> a.merchant_id,
         vamp_score |-> Max(0, vampScore),
         vamp_status |-> tier.status,
         fraud_rate |-> fraudRate,
         dispute_rate |-> disputeRate,
         monthly_trend |-> IF vampScore > 70 THEN "improving"
                           ELSE IF vampScore > 40 THEN "stable" ELSE "declining",
         recommended_actions |-> tier.actions \o
             (IF disputeRate > 50 THEN <<"review_refund_policy">> ELSE <<>>),
         visa_threshold_distance |-> tier.distance]

mockAnalyzeVAMP(cfg, a) ==
    LET hash == Checksum(a.merchant_id)
        fraudRate == 10 + (hash % 20) * 5
        disputeRate == 20 + (hash % 25) * 4
        \* 100 - fraudRate * 20 - disputeRate * 15, in hundredths
        vampScore == RoundDiv(10000 - fraudRate * 20 - disputeRate * 15, 100)
        tier == IF fraudRate < 65
                THEN [status |-> "standard", distance |-> 65 - fraudRate, actions |-> <<>>]
                ELSE IF fraudRate < 90
                THEN [status |-> "monitored", distance |-> 90 - fraudRate,
                      actions |-> <<"implement_rdr", "enable_cdrn_alerts">>]
                ELSE [status |-> "excessive", distance |-> 0,
                      actions |-> <<"URGENT_immediate_remediation", "deploy_3ds",
                                    "velocity_controls", "temporary_limits">>]
    IN  [kind |-> "VAMPAnalysis",
         merchant_id |-> a.merchant_id,
         vamp_score |-> Max(0, vampScore),
         vamp_status |-> tier.status,
         fraud_rate |-> fraudRate,
         dispute_rate |-> disputeRate,
         monthly_trend |-> IF vampScore > 70 THEN "improving"
                           ELSE IF vampScore > 40 THEN "stable" ELSE "declining",
         recommended_actions |-> tier.actions \o
             (IF disputeRate > 50 THEN <<"review_refund_policy">> ELSE <<>>),
         visa_threshold_distance |-> tier.distance]

DefaultVampActions == <<"enable_3ds2", "enroll_visa_rdr", "add_ethoca_verifi_alerts">>

\* The odd currentVamp values (in hundredths) a response of VampBodies
\* carries at which currentVamp * 1.5, exactly half-way between
\* two hundredths, evaluates in double precision just below the half
\* (0.95 * 1.5 = 1.4249999999999998), so that toFixed(2) goes down.
FixedBelowHalf == {95}

NormalizeAnalyzeVAMP(cfg, a, b) ==
    LET sim == b.simulation
        currentVamp == OrElse(sim.currentVampPct, 50)
        projectedVamp == OrElse(sim.projectedVampPct, currentVamp)
        ranked == sim.rankedActions.items
        actions == SubSeq(ranked, 1, Min(5, Len(ranked)))
        \* Math.round(100 - currentVamp * 50)
        vampScore == RoundDiv(200 - currentVamp, 2)
    IN  [kind |-> "VAMPAnalysis",
         merchant_id |-> a.merchant_id,
         vamp_score |-> Max(0, vampScore),
         vamp_status |-> IF currentVamp < 65 THEN "standard"
                         ELSE IF currentVamp < 90 THEN "monitored" ELSE "excessive",
         fraud_rate |-> currentVamp,
         dispute_rate |-> RoundDiv(currentVamp * 3, 2)
             - (IF currentVamp \in FixedBelowHalf THEN 1 ELSE 0),
         monthly_trend |-> IF projectedVamp < currentVamp THEN "improving"
                           ELSE IF projectedVamp > currentVamp THEN "declining" ELSE "stable",
         recommended_actions |-> IF Len(actions) > 0 THEN actions ELSE DefaultVampActions,
         visa_threshold_distance |-> Max(0, 90 - currentVamp)]

\* analyzeVAMPOutcome with the remote call outside the try block: a thrown
\* error reaches the caller
analyzeVAMPOutcomeUncaught(cfg, a, r) ==
    IF r.kind = "throw"
    THEN [result |-> NoResult, source |-> "raised", mocks |-> 0, logs |-> <<>>]
    ELSE IF r.kind = "json" /\ ~SimNormalizeThrows(r.body) /\ HasSimulation(r.body)
    THEN RemoteOutcome(NormalizeAnalyzeVAMP(cfg, a, r.body))
    ELSE MockOutcome(mockAnalyzeVAMP(cfg, a), WarnAlways(r))

\* analyzeVAMP from the response of its remote call to its return
analyzeVAMPOutcome(cfg, a, r) ==
    IF r.kind = "json" /\ ~SimNormalizeThrows(r.body) /\ HasSimulation(r.body)
    THEN RemoteOutcome(NormalizeAnalyzeVAMP(cfg, a, r.body))
    ELSE MockOutcome(mockAnalyzeVAMP(cfg, a), WarnAlways(r))

VampArgs == [merchant_id : StringsUpTo(MaxIdLen)]

VampBodies ==
    {NullBody} \cup
    [shape : {"object"}, simulation : Simulations({0 - 20, 40, 70, 95, 300}, {40})]

-----------------------------------------------------------------------------
(* The call protocol shared by the operations. *)

\* the call reaches `await this.fetch(...)`: one remote call goes out
Suspend(o, a) ==
    /\ pc = "idle"
    /\ pc' = "await"
    /\ op' = o
    /\ args' = a
    /\ fetchCount' = fetchCount + 1
    /\ log' = <<"info">>
    /\ UNCHANGED <<config, demoMode, resp, mockCount, result, source, calls>>

\* the call runs from its entry to its return without a remote call
RunLocal(o, a, out) ==
    /\ pc = "idle"
    /\ pc' = "done"
    /\ op' = o
    /\ args' = a
    /\ result' = out.result
    /\ source' = out.source
    /\ mockCount' = mockCount + out.mocks
    /\ log' = <<"info">> \o out.logs
    /\ UNCHANGED <<config, demoMode, resp, fetchCount, calls>>

\* Resume that switches the client to demo mode after a 401/403
ResumeDisablingRemote(o, r, out) ==
    /\ pc = "await"
    /\ op = o
    /\ pc' = "done"
    /\ resp' = r
    /\ result' = out.result
    /\ source' = out.source
    /\ mockCount' = mockCount + out.mocks
    /\ log' = log \o out.logs
    /\ demoMode' = (demoMode \/ (r.kind = "status" /\ r.status \in {401, 403}))
    /\ UNCHANGED <<config, op, args, fetchCount, calls>>

\* the suspended call resumes with response r and runs to its return
Resume(o, r, out) ==
    /\ pc = "await"
    /\ op = o
    /\ pc' = "done"
    /\ resp' = r
    /\ result' = out.result
    /\ source' = out.source
    /\ mockCount' = mockCount + out.mocks
    /\ log' = log \o out.logs
    /\ UNCHANGED <<config, demoMode, op, args, fetchCount, calls>>

\* the caller takes the result; the call's records are discarded
Return ==
    /\ pc = "done"
    /\ pc' = "idle"
    /\ op' = "none"
    /\ args' = NoArgs
    /\ resp' = NoResp
    /\ fetchCount' = 0
    /\ mockCount' = 0
    /\ result' = NoResult
    /\ source' = "none"
    /\ log' = <<"info">>
    /\ UNCHANGED <<config, demoMode, calls>>

scoreTransaction ==
    \E a \in ScoreArgs :
        IF ~demoMode
        THEN Suspend("scoreTransaction", a)
        ELSE RunLocal("scoreTransaction", a, MockOutcome(mockScoreTransaction(config, a), <<>>))

scoreTransactionResume ==
    \E r \in Failures \cup {Json(b) : b \in ScoreBodies} :
        Resume("scoreTransaction", r, scoreTransactionOutcome(config, args, r))

lookupMerchant ==
    \E a \in LookupArgs :
        IF LookupIssuesRemote(demoMode, a)
        THEN Suspend("lookupMerchant", a)
        ELSE RunLocal("lookupMerchant", a, MockOutcome(mockLookupMerchant(config, a), <<>>))

lookupMerchantResume ==
    \E r \in Failures \cup {Json(b) : b \in LookupBodies} :
        Resume("lookupMerchant", r, lookupMerchantOutcome(config, args, r))

verifyAgent ==
    \E a \in VerifyArgs :
        IF ~demoMode
        THEN Suspend("verifyAgent", a)
        ELSE RunLocal("verifyAgent", a, MockOutcome(mockVerifyAgent(config, a), <<>>))

verifyAgentResume ==
    \E r \in Failures \cup {Json(b) : b \in VerifyBodies} :
        Resume("verifyAgent", r, verifyAgentOutcome(config, args, r))

predictDispute ==
    \E a \in DisputeArgs :
        IF ~demoMode
        THEN Suspend("predictDispute", a)
        ELSE RunLocal("predictDispute", a, MockOutcome(mockPredictDispute(config, a), <<>>))

predictDisputeResume ==
    \E r \in Failures \cup {Json(b) : b \in DisputeBodies} :
        Resume("predictDispute", r, predictDisputeOutcome(config, args, r))

\* checkVelocity following the protocol of the other operations
checkVelocityRemote ==
    \E a \in VelocityArgs :
        IF ~demoMode
        THEN Suspend("checkVelocity", a)
        ELSE RunLocal("checkVelocity", a, MockOutcome(mockCheckVelocity(config, a), <<>>))

checkVelocity ==
    \E a \in VelocityArgs :
        RunLocal("checkVelocity", a, MockOutcome(mockCheckVelocity(config, a), <<>>))

checkCrossRail ==
    \E a \in CrossRailArgs :
        IF ~demoMode
        THEN Suspend("checkCrossRail", a)
        ELSE RunLocal("checkCrossRail", a, MockOutcome(mockCheckCrossRail(config, a), <<>>))

\* checkCrossRailResume that repeats the remote call after a thrown error or
\* a non-2xx status
checkCrossRailResumeRetry ==
    \E r \in Failures \cup {Json(b) : b \in CrossRailBodies} :
        IF r.kind \in {"throw", "status"}
        THEN /\ pc = "await"
             /\ op = "checkCrossRail"
             /\ fetchCount' = fetchCount + 1
             /\ UNCHANGED <<config, demoMode, pc, op, args, resp, mockCount, result,
                            source, log, calls>>
        ELSE Resume("checkCrossRail", r, checkCrossRailOutcome(config, args, r))

checkCrossRailResume ==
    \E r \in Failures \cup {Json(b) : b \in CrossRailBodies} :
        Resume("checkCrossRail", r, checkCrossRailOutcome(config, args, r))

analyzeVAMP ==
    \E a \in VampArgs :
        IF ~demoMode
        THEN Suspend("analyzeVAMP", a)
        ELSE RunLocal("analyzeVAMP", a, MockOutcome(mockAnalyzeVAMP(config, a), <<>>))

analyzeVAMPResume ==
    \E r \in Failures \cup {Json(b) : b \in VampBodies} :
        Resume("analyzeVAMP", r, analyzeVAMPOutcome(config, args, r))

-----------------------------------------------------------------------------
(* Spec: a client constructed with any of the keys and threshold            *)
(* configurations, serving an unbounded sequence of operation calls.        *)

Init ==
    \E key \in ApiKeys, th \in {DefaultThresholds, InvertedThresholds} :
        Constructed(MakeConfig(key, th))

Next ==
    \/ scoreTransaction
    \/ scoreTransactionResume
    \/ lookupMerchant
    \/ lookupMerchantResume
    \/ verifyAgent
    \/ verifyAgentResume
    \/ predictDispute
    \/ predictDisputeResume
    \/ checkVelocity
    \/ checkCrossRail
    \/ checkCrossRailResume
    \/ analyzeVAMP
    \/ analyzeVAMPResume
    \/ Return

Spec == Init /\ [][Next]_vars

-----------------------------------------------------------------------------
(* Properties of Spec. *)

\* the operations that have a remote endpoint
RemoteOps ==
    {"scoreTransaction", "lookupMerchant", "verifyAgent", "predictDispute",
     "checkCrossRail", "analyzeVAMP"}

\* the mock generator of operation o
MockFor(o, cfg, a) ==
    CASE o = "scoreTransaction" -> mockScoreTransaction(cfg, a)
      [] o = "lookupMerchant" -> mockLookupMerchant(cfg, a)
      [] o = "verifyAgent" -> mockVerifyAgent(cfg, a)
      [] o = "predictDispute" -> mockPredictDispute(cfg, a)
      [] o = "checkVelocity" -> mockCheckVelocity(cfg, a)
      [] o = "checkCrossRail" -> mockCheckCrossRail(cfg, a)
      [] o = "analyzeVAMP" -> mockAnalyzeVAMP(cfg, a)

\* the normalizer of operation o
NormalizeFor(o, cfg, a, b) ==
    CASE o = "scoreTransaction" -> NormalizeScoreTransaction(cfg, a, b)
      [] o = "lookupMerchant" -> NormalizeLookupMerchant(cfg, a, b)
      [] o = "verifyAgent" -> NormalizeVerifyAgent(cfg, a, b)
      [] o = "predictDispute" -> NormalizePredictDispute(cfg, a, b)
      [] o = "checkCrossRail" -> NormalizeCheckCrossRail(cfg, a, b)
      [] o = "analyzeVAMP" -> NormalizeAnalyzeVAMP(cfg, a, b)

\* the JSON body b of a 2xx response makes operation o's normalization throw
NormalizeThrowsFor(o, b) ==
    CASE o = "scoreTransaction" -> ScoreNormalizeThrows(b)
      [] o = "lookupMerchant" -> LookupNormalizeThrows(b)
      [] o = "verifyAgent" -> VerifyNormalizeThrows(b)
      [] o = "predictDispute" -> SimNormalizeThrows(b)
      [] o = "checkCrossRail" -> CrossRailNormalizeThrows(b)
      [] o = "analyzeVAMP" -> SimNormalizeThrows(b)

\* the remote call threw, answered a non-2xx status, or answered a body that
\* cannot be parsed or whose normalization throws
RemoteFailed(o, r) ==
    \/ r.kind \in {"throw", "status", "badjson"}
    \/ r.kind = "json" /\ NormalizeThrowsFor(o, r.body)

\* the JSON body lacks the `simulation` object the simulator-backed
\* operations read
LacksSimulation(o, b) ==
    o \in {"predictDispute", "analyzeVAMP"} /\ b.shape = "object" /\ ~HasSimulation(b)

\* C1: a client constructed with apiKey "demo" or with an empty/absent apiKey
\* never has a remote call outstanding or issued, whatever calls are made.
DemoIssuesNoRemoteCall ==
    config.apiKey \in {"demo", ""} => fetchCount = 0 /\ pc # "await"

\* a call served by a client built with an empty key
DemoIssuesNoRemoteCallWitness ==
    /\ config.apiKey = ""
    /\ pc = "done"
    /\ op = "analyzeVAMP"
    /\ source = "mock"

\* C2: in live mode, a remote-backed operation whose remote call threw,
\* answered non-2xx, or answered a body that cannot be parsed or normalized
\* does not raise and returns its mock generator's result for its input.
FailureFallsBackToMock ==
    pc = "done" /\ ~demoMode /\ op \in RemoteOps /\ fetchCount = 1 /\ RemoteFailed(op, resp)
        => source = "mock" /\ result = MockFor(op, config, args)

\* analyzeVAMP returning its mock result after its remote call threw
FailureFallsBackToMockWitness ==
    /\ pc = "done"
    /\ ~demoMode
    /\ op = "analyzeVAMP"
    /\ resp.kind = "throw"
    /\ result = mockAnalyzeVAMP(config, args)

\* C3: checkVelocity issues no remote call in any mode and returns the
\* velocity mock generator's result for its input.
VelocityIsLocal ==
    op = "checkVelocity"
        => /\ fetchCount = 0
           /\ pc = "done"
           /\ source = "mock"
           /\ result = mockCheckVelocity(config, args)

\* checkVelocity served in live mode
VelocityIsLocalWitness ==
    ~demoMode /\ op = "checkVelocity" /\ pc = "done" /\ result.anomaly_detected

\* C4: a call issues at most one remote call and invokes the mock generator
\* at most once; after a thrown error or a non-2xx status it returns with
\* exactly one remote call made and exactly one mock invocation.
AtMostOneRemoteCall ==
    /\ fetchCount <= 1
    /\ mockCount <= 1
    /\ pc = "done" /\ resp.kind \in {"throw", "status"} => fetchCount = 1 /\ mockCount = 1

\* checkCrossRail returned after a 500
AtMostOneRemoteCallWitness ==
    /\ pc = "done"
    /\ op = "checkCrossRail"
    /\ resp.kind = "status"
    /\ resp.status = 500
    /\ fetchCount = 1
    /\ mockCount = 1

\* C5, as stated: in live mode every call of a remote-backed operation has
\* made its remote call before the mock generator runs; for lookupMerchant,
\* whichever of merchant_id, merchant_name or website the caller supplied.
RemoteBeforeMock ==
    /\ ~demoMode
    /\ op \in RemoteOps
    /\ mockCount > 0
    /\ op = "lookupMerchant"
         => ~FalsyStr(args.merchant_id) \/ ~FalsyStr(args.merchant_name)
            \/ ~FalsyStr(args.website)
    => fetchCount = 1

\* C5, amended: in live mode every call of a remote-backed operation makes its
\* remote call before any mock generation, except lookupMerchant without a
\* non-empty merchant_id, which makes no remote call and returns the mock.
RemoteBeforeMockUnlessNoMerchantId ==
    ~demoMode /\ op \in RemoteOps
        => IF op = "lookupMerchant" /\ FalsyStr(args.merchant_id)
           THEN fetchCount = 0 /\ pc = "done" /\ source = "mock"
           ELSE fetchCount = 1 /\ (pc = "await" => mockCount = 0)

\* a live lookup by name only, answered by the mock without a remote call
RemoteBeforeMockWitness ==
    /\ ~demoMode
    /\ op = "lookupMerchant"
    /\ args.merchant_id = {}
    /\ args.merchant_name = {<<65, 49>>}
    /\ pc = "done"
    /\ fetchCount = 0

\* C6, as stated: in live mode a 2xx response with a parseable JSON body (here:
\* one on which normalization does not throw) always yields the normalized
\* remote result, without the mock, whatever fields the body omits.
ParseableBodyIsNormalized ==
    pc = "done" /\ resp.kind = "json" /\ ~NormalizeThrowsFor(op, resp.body)
        => source = "remote" /\ mockCount = 0

\* C6, amended: in live mode a 2xx response with a parseable JSON body yields
\* the normalized remote result without the mock, whatever other fields are
\* omitted, unless normalization throws on the body or a simulator-backed
\* operation finds no `simulation` in it, in which case the mock result is
\* returned; every result comes from exactly one of the two.
ParseableBodyIsNormalizedUnlessUnusable ==
    pc = "done"
        => /\ \/ source = "remote" /\ mockCount = 0
              \/ source = "mock" /\ mockCount = 1
           /\ resp.kind = "json"
                => IF NormalizeThrowsFor(op, resp.body) \/ LacksSimulation(op, resp.body)
                   THEN source = "mock" /\ result = MockFor(op, config, args)
                   ELSE source = "remote"
                        /\ result = NormalizeFor(op, config, args, resp.body)

\* lookupMerchant normalizing a payload that omits guardscore, chargeback_rate
\* and vamp_status
ParseableBodyIsNormalizedWitness ==
    /\ pc = "done"
    /\ op = "lookupMerchant"
    /\ resp.kind = "json"
    /\ resp.body.shape = "object"
    /\ resp.body.guardscore = {}
    /\ resp.body.chargeback_rate = {}
    /\ resp.body.vamp_status = {}
    /\ source = "remote"
    /\ result.guardscore = 50

\* C7: demoMode is (apiKey = "demo" or apiKey empty) from construction on, and
\* no step of any operation changes demoMode or the configuration.
ConfigurationIsFixed ==
    /\ [](demoMode = (config.apiKey = "demo" \/ config.apiKey = ""))
    /\ [][demoMode' = demoMode /\ config' = config]_vars

\* a live client that fell back to the mock after a 403
ConfigurationIsFixedWitness ==
    /\ pc = "done"
    /\ resp.kind = "status"
    /\ resp.status = 403
    /\ source = "mock"
    /\ ~demoMode
    /\ config.apiKey = "sk_live_1"

\* C9: the risk_score of scoreTransaction, the guardscore of lookupMerchant
\* and the vamp_score of analyzeVAMP lie in [0, 100] on the mock path and on
\* the normalized remote path.
ScoresInRange ==
    pc = "done"
        => /\ op = "scoreTransaction" => result.risk_score \in 0..100
           /\ op = "lookupMerchant" => result.guardscore \in 0..100
           /\ op = "analyzeVAMP" => result.vamp_score \in 0..100

\* C10: the dispute_probability of predictDispute lies in [0.01, 0.99] on both
\* paths, and the velocity_score of checkVelocity lies in [0, 100] for every
\* entity and every supplied count, zero and negative counts included.
ProbabilityAndVelocityInRange ==
    pc = "done"
        => /\ op = "predictDispute" => result.dispute_probability \in 100..9900
           /\ op = "checkVelocity" => result.velocity_score \in 0..100

\* a remote currentVampPct of 120 clamped to the probability 0.99
ProbabilityAndVelocityInRangeWitness ==
    /\ pc = "done"
    /\ op = "predictDispute"
    /\ source = "remote"
    /\ resp.body.simulation.currentVampPct = {12000}
    /\ result.dispute_probability = 9900

\* the operations whose result carries a numeric score and a risk_level
TieredOps == {"scoreTransaction", "lookupMerchant", "checkCrossRail"}

\* the numeric score of such a result
ScoreField(o, res) ==
    CASE o = "scoreTransaction" -> res.risk_score
      [] o = "lookupMerchant" -> res.guardscore
      [] o = "checkCrossRail" -> res.cross_rail_risk_score

\* C13, as stated: in every result of scoreTransaction, lookupMerchant and
\* checkCrossRail, from the mock and from the normalized remote payload,
\* risk_level is the tier classifier applied to the result's score under the
\* configured thresholds.
TieringConsistent ==
    pc = "done" /\ op \in TieredOps
        => result.risk_level = riskLevel(config, ScoreField(op, result))

\* C13, amended: risk_level is the tier classifier applied to the result's
\* score for scoreTransaction and lookupMerchant on both paths and for
\* checkCrossRail on the mock path; on checkCrossRail's normalized remote path
\* risk_level is the payload's own risk_level (critical, high or medium kept,
\* anything else or none read as low), whatever the score derived from the
\* payload's decision.
TieringConsistentExceptRemoteCrossRail ==
    pc = "done" /\ op \in TieredOps
        => IF op = "checkCrossRail" /\ source = "remote"
           THEN /\ result.risk_level = mapRiskLevel(resp.body.risk_level)
                /\ result.cross_rail_risk_score =
                       (IF resp.body.decision = {"allow"} THEN 80
                        ELSE IF resp.body.decision = {"allow_with_conditions"} THEN 55
                        ELSE 25)
           ELSE result.risk_level = riskLevel(config, ScoreField(op, result))

\* a remote "deny" without risk_level: score 25, which the default thresholds
\* classify as high, reported with risk_level low
TieringConsistentWitness ==
    /\ pc = "done"
    /\ op = "checkCrossRail"
    /\ source = "remote"
    /\ config.autoDeclineThreshold = 15
    /\ resp.body.decision = {"deny"}
    /\ resp.body.risk_level = {}
    /\ result.cross_rail_risk_score = 25
    /\ result.risk_level = "low"
    /\ riskLevel(config, 25) = "high"

\* C14, as stated: in a normalized remote result risk_factors,
\* preventive_actions and recommended_actions each hold at most 5 entries,
\* whatever the payload carries and with or without agent_id.
ListsAtMostFive ==
    pc = "done" /\ source = "remote"
        => /\ op = "scoreTransaction" => Len(result.risk_factors) <= 5
           /\ op = "predictDispute" => Len(result.preventive_actions) <= 5
           /\ op = "analyzeVAMP" => Len(result.recommended_actions) <= 5

\* C14, amended: in a normalized remote result preventive_actions and
\* recommended_actions hold at most 5 entries, and risk_factors holds at most
\* 5 entries taken from the payload's insights, followed by one
\* agent_initiated entry when the request has a non-empty agent_id (so at most
\* 6 with an agent_id, at most 5 without).
ListsAtMostFiveBesidesAgentFactor ==
    pc = "done" /\ source = "remote"
        => /\ op = "scoreTransaction"
                => LET n == Min(5, Len(resp.body.insights.items))
                       factors == result.risk_factors
                   IN  /\ Len(factors) = n + (IF FalsyStr(args.agent_id) THEN 0 ELSE 1)
                       /\ \A i \in 1..n : factors[i].factor = "remote_insight"
                       /\ ~FalsyStr(args.agent_id)
                            => factors[n + 1] = Factor("agent_initiated", "low")
           /\ op = "predictDispute" => Len(result.preventive_actions) <= 5
           /\ op = "analyzeVAMP" => Len(result.recommended_actions) <= 5

\* six insights and an agent_id: five remote factors and agent_initiated
ListsAtMostFiveWitness ==
    /\ pc = "done"
    /\ op = "scoreTransaction"
    /\ source = "remote"
    /\ Len(resp.body.insights.items) = 6
    /\ ~FalsyStr(args.agent_id)
    /\ Len(result.risk_factors) = 6

\* the records a call logged after its entry record
Records == SubSeq(log, 2, Len(log))

\* the response is a 401 or a 403
AuthFailure(r) == r.kind = "status" /\ r.status \in {401, 403}

\* C15, as stated: every remote-backed operation records a 401 or 403 at info
\* level and never at warn level, records any other non-2xx status or a
\* thrown error at warn level, and falls back to the mock in all these cases.
AuthFailureLoggedAtInfo ==
    pc = "done" /\ op \in RemoteOps /\ fetchCount = 1 /\ resp.kind \in {"throw", "status"}
        => /\ source = "mock"
           /\ Records = (IF AuthFailure(resp) THEN <<"info">> ELSE <<"warn">>)

\* C15, amended: verifyAgent and checkCrossRail record a 401 or 403 at info
\* level and never at warn level; scoreTransaction, lookupMerchant,
\* predictDispute and analyzeVAMP record a 401 or 403 at warn level; every
\* operation records any other non-2xx status or a thrown error at warn
\* level; in all these cases the operation falls back to the mock.
AuthFailureLoggedAtInfoByScreenAndGuard ==
    pc = "done" /\ op \in RemoteOps /\ fetchCount = 1 /\ resp.kind \in {"throw", "status"}
        => /\ source = "mock"
           /\ result = MockFor(op, config, args)
           /\ Records = (IF AuthFailure(resp) /\ op \in {"verifyAgent", "checkCrossRail"}
                         THEN <<"info">> ELSE <<"warn">>)

\* verifyAgent falling back after a 403, logged at info
AuthFailureLoggedAtInfoWitness ==
    /\ pc = "done"
    /\ op = "verifyAgent"
    /\ resp.kind = "status"
    /\ resp.status = 403
    /\ log = <<"info", "info">>
    /\ source = "mock"

\* C16, as stated: in every CrossRailResult rails_analyzed is the requested
\* payment_rails, rail_scores has one score for each rail of rails_analyzed
\* and no other key, and the two have the same number of entries.
RailScoresMatchRails ==
    pc = "done" /\ op = "checkCrossRail"
        => /\ result.rails_analyzed = args.payment_rails
           /\ DOMAIN result.rail_scores = Range(result.rails_analyzed)
           /\ Cardinality(DOMAIN result.rail_scores) = Len(result.rails_analyzed)

\* the requested rails repeat none
DistinctRails(rails) == \A i, j \in 1..Len(rails) : rails[i] = rails[j] => i = j

\* C16, amended: in every CrossRailResult rails_analyzed is the requested
\* payment_rails and rail_scores has one score for each distinct rail of
\* rails_analyzed and no other key; the two have the same number of entries
\* exactly when the request repeats no rail, and rail_scores has fewer entries
\* otherwise.
RailScoresMatchDistinctRails ==
    pc = "done" /\ op = "checkCrossRail"
        => /\ result.rails_analyzed = args.payment_rails
           /\ DOMAIN result.rail_scores = Range(result.rails_analyzed)
           /\ Cardinality(DOMAIN result.rail_scores) <= Len(result.rails_analyzed)
           /\ Cardinality(DOMAIN result.rail_scores) = Len(result.rails_analyzed)
                <=> DistinctRails(args.payment_rails)

\* the remote path on the request ["card", "card"]: two rails analyzed, one score
RailScoresMatchRailsWitness ==
    /\ pc = "done"
    /\ op = "checkCrossRail"
    /\ source = "remote"
    /\ args.payment_rails = <<"card", "card">>
    /\ result.rails_analyzed = <<"card", "card">>
    /\ DOMAIN result.rail_scores = {"card"}

\* C19: in every TransactionRiskResult, from the mock and from the normalized
\* remote payload, recommended_action is decline iff risk_level is critical,
\* review iff risk_level is high, and approve iff risk_level is medium or low.
ActionFollowsTier ==
    pc = "done" /\ op = "scoreTransaction"
        => /\ result.recommended_action = "decline" <=> result.risk_level = "critical"
           /\ result.recommended_action = "review" <=> result.risk_level = "high"
           /\ result.recommended_action = "approve" <=> result.risk_level \in {"medium", "low"}

\* a remote score of 50, medium under the default thresholds, approved
ActionFollowsTierWitness ==
    /\ pc = "done"
    /\ op = "scoreTransaction"
    /\ source = "remote"
    /\ result.risk_score = 50
    /\ result.risk_level = "medium"
    /\ result.recommended_action = "approve"

HighRiskCategories == {"gambling", "adult", "crypto_exchange", "pharmaceuticals", "weapons"}

\* the names of the factors of a list, in order
FactorNames(factors) == [i \in 1..Len(factors) |-> factors[i].factor]

\* 1 if the condition holds, else 0
Ind(cond) == IF cond THEN 1 ELSE 0

\* the score and the factor names the penalty rule gives, for the given
\* readings of "agent_id present", "merchant_id absent" and "category in the
\* high-risk set"
PenaltyRule(a, agentPresent, merchantAbsent, highRisk) ==
    [score |-> Max(0, Min(100, 85 - 20 * Ind(a.amount > 10000)
                               - 10 * Ind(a.amount > 5000 /\ a.amount <= 10000)
                               - 5 * Ind(a.payment_rail \in {"crypto", "stablecoin"})
                               - 3 * Ind(agentPresent) - 15 * Ind(merchantAbsent)
                               - 15 * Ind(highRisk))),
     names |-> (IF a.amount > 10000 THEN {"high_value"} ELSE {})
               \cup (IF a.amount > 5000 /\ a.amount <= 10000 THEN {"elevated_value"} ELSE {})
               \cup (IF a.payment_rail \in {"crypto", "stablecoin"}
                     THEN {"alternative_rail"} ELSE {})
               \cup (IF agentPresent THEN {"agent_initiated"} ELSE {})
               \cup (IF merchantAbsent THEN {"unknown_merchant"} ELSE {})
               \cup (IF highRisk THEN {"high_risk_category"} ELSE {})]

\* the result's score and factors are those of the rule, one entry per factor
FollowsPenaltyRule(res, rule) ==
    /\ res.risk_score = rule.score
    /\ Range(FactorNames(res.risk_factors)) = rule.names
    /\ Len(res.risk_factors) = Cardinality(rule.names)
    /\ ~({"high_value", "elevated_value"} \subseteq Range(FactorNames(res.risk_factors)))

\* C20, as stated: the mock transaction score is 85 less 20 for amount >
\* 10000, 10 for 5000 < amount <= 10000, 5 for rail crypto or stablecoin, 3 for
\* agent_id present, 15 for merchant_id absent and 15 for a category in the
\* high-risk set, clamped to [0, 100], with exactly one factor per applied
\* penalty and never both high_value and elevated_value.
MockScoreFollowsPenalties ==
    pc = "done" /\ op = "scoreTransaction" /\ source = "mock"
        => FollowsPenaltyRule(result,
               PenaltyRule(args, args.agent_id # {}, args.merchant_id = {},
                           args.merchant_category \in HighRiskCategories))

\* C20, amended: the same rule where the agent penalty applies to a non-empty
\* agent_id (an empty string counts as none), the merchant penalty to an
\* absent or empty merchant_id, and the category penalty to a category whose
\* lower-cased form is in the high-risk set; amount 15000 with category
\* gambling on rail card gives a score <= 50 with factors high_value and
\* high_risk_category.
MockScoreFollowsPenaltiesOnTruthiness ==
    pc = "done" /\ op = "scoreTransaction" /\ source = "mock"
        => /\ FollowsPenaltyRule(result,
                  PenaltyRule(args, ~FalsyStr(args.agent_id), FalsyStr(args.merchant_id),
                              ToLower(args.merchant_category) \in HighRiskCategories))
           /\ args.amount = 15000 /\ args.merchant_category = "gambling"
                /\ args.payment_rail = "card"
                => /\ result.risk_score <= 50
                   /\ {"high_value", "high_risk_category"}
                          \subseteq Range(FactorNames(result.risk_factors))

\* the mock on amount 15000, category GAMBLING, an empty agent_id and a
\* merchant_id: 85 - 20 - 15 = 50
MockScoreFollowsPenaltiesWitness ==
    /\ pc = "done"
    /\ op = "scoreTransaction"
    /\ source = "mock"
    /\ args.amount = 15000
    /\ args.merchant_category = "GAMBLING"
    /\ args.agent_id = {<<>>}
    /\ args.merchant_id # {}
    /\ result.risk_score = 50
    /\ FactorNames(result.risk_factors) = <<"high_value", "high_risk_category">>

\* C27 as stated: in every AgentVerification result, from the mock path and
\* from the normalized remote path, spending_limit is 10000 iff
\* authorization_level is full.
LimitFollowsAuthorization ==
    pc = "done" /\ op = "verifyAgent"
        => (result.spending_limit = 10000 <=> result.authorization_level = "full")

\* C27: in every AgentVerification result spending_limit is 10000, 1000 or
\* 100.  From the mock path it is 10000 iff trust_score > 80, so every fully
\* authorized agent (trust > 85) has the limit 10000, and so have the agents
\* of standard authorization with trust 81..85.  From the normalized remote
\* path it is 10000 iff the remote capabilityLevel is PAYMENT_EXECUTE, so
\* only fully authorized agents have the limit 10000, while capabilityLevel
\* ORCHESTRATE gives full authorization with the limit 100.
LimitFollowsTrustOrCapability ==
    pc = "done" /\ op = "verifyAgent"
        => /\ result.spending_limit \in {100, 1000, 10000}
           /\ source = "mock"
                => /\ result.spending_limit = 10000 <=> result.trust_score > 80
                   /\ result.authorization_level = "full" <=> result.trust_score > 85
                   /\ result.authorization_level = "full" => result.spending_limit = 10000
           /\ source = "remote"
                => /\ result.spending_limit = 10000
                        <=> resp.body.capabilityLevel = {"PAYMENT_EXECUTE"}
                   /\ result.authorization_level = "full"
                        <=> resp.body.capabilityLevel \in {{"PAYMENT_EXECUTE"}, {"ORCHESTRATE"}}
                   /\ result.spending_limit = 10000 => result.authorization_level = "full"

\* a remote answer with capabilityLevel ORCHESTRATE: full authorization with
\* the spending limit 100
LimitFollowsTrustOrCapabilityWitness ==
    /\ pc = "done"
    /\ op = "verifyAgent"
    /\ source = "remote"
    /\ resp.body.capabilityLevel = {"ORCHESTRATE"}
    /\ result.authorization_level = "full"
    /\ result.spending_limit = 100

\* C28 as stated: in every DisputePrediction predictDispute returns, from the
\* mock path and from the normalized remote path, predicted_dispute_type is
\* null iff dispute_probability <= 0.05, equivalently iff risk_level is low.
TypeReportedIffMediumOrWorse ==
    pc = "done" /\ op = "predictDispute"
        => /\ result.predicted_dispute_type = "null" <=> result.dispute_probability <= 500
           /\ result.dispute_probability <= 500 <=> result.risk_level = "low"

\* C28: in every DisputePrediction predictDispute returns from the mock path,
\* predicted_dispute_type is null iff dispute_probability <= 0.05,
\* equivalently iff risk_level is low, so a type is reported exactly when the
\* tier is medium or worse.  From the normalized remote path
\* predicted_dispute_type is never null: it is subscription_canceled if
\* is_recurring, else fraud, at every tier.
TypeReportedIffMediumOrWorseOnMock ==
    pc = "done" /\ op = "predictDispute"
        => /\ source = "mock"
                => /\ result.predicted_dispute_type = "null"
                        <=> result.dispute_probability <= 500
                   /\ result.dispute_probability <= 500 <=> result.risk_level = "low"
           /\ source = "remote"
                => result.predicted_dispute_type =
                     (IF args.is_recurring = {TRUE} THEN "subscription_canceled" ELSE "fraud")

\* a remote simulation with currentVampPct below 1: probability 0.01, tier
\* low, and the type fraud reported
TypeReportedIffMediumOrWorseOnMockWitness ==
    /\ pc = "done"
    /\ op = "predictDispute"
    /\ source = "remote"
    /\ result.dispute_probability = 100
    /\ result.risk_level = "low"
    /\ result.predicted_dispute_type = "fraud"

\* C30: with the default thresholds (autoDecline 15, highRisk 30, mediumRisk
\* 60) the mock transaction score lies between 27 and 85, so in demo mode or
\* on fallback scoreTransaction never returns the risk_level critical nor the
\* recommended_action decline.
MockScoreNeverDeclinesUnderDefaults ==
    (/\ pc = "done"
     /\ op = "scoreTransaction"
     /\ source = "mock"
     /\ config.autoDeclineThreshold = 15
     /\ config.highRiskThreshold = 30
     /\ config.mediumRiskThreshold = 60)
        => /\ result.risk_score >= 27
           /\ result.risk_score <= 85
           /\ result.risk_level # "critical"
           /\ result.recommended_action # "decline"

\* on fallback under the default thresholds, a transaction carrying every
\* penalty: score 27, tier high, action review
MockScoreNeverDeclinesUnderDefaultsWitness ==
    /\ pc = "done"
    /\ op = "scoreTransaction"
    /\ source = "mock"
    /\ ~demoMode
    /\ config.autoDeclineThreshold = 15
    /\ config.highRiskThreshold = 30
    /\ config.mediumRiskThreshold = 60
    /\ Len(result.risk_factors) = 5
    /\ result.risk_score = 27
    /\ result.risk_level = "high"
    /\ result.recommended_action = "review"

-----------------------------------------------------------------------------
(* SpecConc: the transport serves up to MaxInFlight calls on one client at   *)
(* once.  A call runs from its entry to its remote call's suspension point,  *)
(* and from the response to its return, in single steps; the steps of        *)
(* different calls interleave in any order.  The client's fields are shared  *)
(* by all calls; a call's input and response are locals of its invocation.   *)

\* the operation issues a remote call for this input
IssuesRemote(o, demo, a) ==
    CASE o = "checkVelocity" -> FALSE
      [] o = "lookupMerchant" -> LookupIssuesRemote(demo, a)
      [] OTHER -> ~demo

\* operation o from the response of its remote call to its return
OutcomeFor(o, cfg, a, r) ==
    CASE o = "scoreTransaction" -> scoreTransactionOutcome(cfg, a, r)
      [] o = "lookupMerchant" -> lookupMerchantOutcome(cfg, a, r)
      [] o = "verifyAgent" -> verifyAgentOutcome(cfg, a, r)
      [] o = "predictDispute" -> predictDisputeOutcome(cfg, a, r)
      [] o = "checkCrossRail" -> checkCrossRailOutcome(cfg, a, r)
      [] o = "analyzeVAMP" -> analyzeVAMPOutcome(cfg, a, r)

\* the requests of the concurrent calls: every operation, two inputs for
\* scoreTransaction and verifyAgent
ConcCalls ==
    {[op |-> "scoreTransaction",
      args |-> [amount |-> m, merchant_category |-> "e-commerce", payment_rail |-> "card",
                merchant_id |-> {<<77, 49>>}, agent_id |-> {}]] : m \in {100, 15000}}
    \cup {[op |-> "verifyAgent",
           args |-> [agent_id |-> id, requesting_action |-> "purchase",
                     transaction_amount |-> {}]] : id \in {<<65>>, <<65, 49>>}}
    \cup {[op |-> "lookupMerchant",
           args |-> [merchant_id |-> {<<77>>}, merchant_name |-> {}, website |-> {}]],
          [op |-> "predictDispute",
           args |-> [transaction_amount |-> 501, merchant_category |-> "digital_goods",
                     payment_rail |-> "card", is_recurring |-> {}]],
          [op |-> "checkVelocity",
           args |-> [entity_id |-> <<65>>, time_window |-> "24h", transaction_count |-> {}]],
          [op |-> "checkCrossRail",
           args |-> [entity_id |-> <<65>>, payment_rails |-> <<"card", "crypto">>]],
          [op |-> "analyzeVAMP", args |-> [merchant_id |-> <<77>>]]}

NoList == [given |-> "absent", items |-> <<>>]

\* one well-formed payload per remote endpoint
ConcBody(o) ==
    CASE o = "scoreTransaction" -> [shape |-> "object", score |-> {50}, insights |-> NoList]
      [] o = "lookupMerchant" ->
            [shape |-> "object", guardscore |-> {20}, kyb_verified |-> TRUE,
             chargeback_rate |-> {}, vamp_status |-> {}]
      [] o = "verifyAgent" ->
            [shape |-> "object", verdict |-> {"ALLOW"}, capabilityLevel |-> {"PAYMENT_EXECUTE"},
             denialReason |-> {}, requiredScreenings |-> NoList]
      [] o = "predictDispute" ->
            [shape |-> "object",
             simulation |-> [present |-> TRUE, currentVampPct |-> {600},
                             projectedVampPct |-> {}, rankedActions |-> NoList]]
      [] o = "checkCrossRail" ->
            [shape |-> "object", decision |-> {"allow"}, risk_level |-> {"low"},
             reasons |-> NoList]
      [] o = "analyzeVAMP" ->
            [shape |-> "object",
             simulation |-> [present |-> TRUE, currentVampPct |-> {70},
                             projectedVampPct |-> {40}, rankedActions |-> NoList]]

ConcResponses(o) == Failures \cup {Json(ConcBody(o))}

\* ArgsAfterAwait reading a field of the client that every call overwrites
\* at its entry: the input of another call of the operation still suspended
ArgsAfterAwaitShared(cs, c) ==
    IF \E d \in Slots : d # c /\ cs[d].pc = "await" /\ cs[d].op = cs[c].op
    THEN cs[CHOOSE d \in Slots : d # c /\ cs[d].pc = "await" /\ cs[d].op = cs[c].op].args
    ELSE cs[c].args

\* the input a call reads after its await: `args`, the parameter of its own
\* invocation
ArgsAfterAwait(cs, c) == cs[c].args

\* the call in slot c runs from its entry to its remote call, or, where it
\* issues none, to its return
Begin(c) ==
    /\ calls[c].pc = "idle"
    /\ \E k \in ConcCalls :
         calls' = [calls EXCEPT ![c] =
             IF IssuesRemote(k.op, demoMode, k.args)
             THEN [IdleCall EXCEPT !.pc = "await", !.op = k.op, !.args = k.args,
                                   !.fetches = 1]
             ELSE [IdleCall EXCEPT !.pc = "done", !.op = k.op, !.args = k.args,
                                   !.mocks = 1, !.source = "mock",
                                   !.result = MockFor(k.op, config, k.args)]]
    /\ UNCHANGED <<config, demoMode, pc, op, args, resp, fetchCount, mockCount,
                   result, source, log>>

\* the suspended call in slot c resumes with its response and runs to its return
Settle(c) ==
    /\ calls[c].pc = "await"
    /\ \E r \in ConcResponses(calls[c].op) :
         LET out == OutcomeFor(calls[c].op, config, ArgsAfterAwait(calls, c), r)
         IN  calls' = [calls EXCEPT ![c] =
                 [@ EXCEPT !.pc = "done", !.resp = r, !.result = out.result,
                           !.source = out.source, !.mocks = @ + out.mocks]]
    /\ UNCHANGED <<config, demoMode, pc, op, args, resp, fetchCount, mockCount,
                   result, source, log>>

\* the caller of slot c takes its result
Deliver(c) ==
    /\ calls[c].pc = "done"
    /\ calls' = [calls EXCEPT ![c] = IdleCall]
    /\ UNCHANGED <<config, demoMode, pc, op, args, resp, fetchCount, mockCount,
                   result, source, log>>

InitConc ==
    \E key \in {"demo", "sk_live_1"} : Constructed(MakeConfig(key, DefaultThresholds))

NextConc ==
    \E c \in Slots :
        \/ Begin(c)
        \/ Settle(c)
        \/ Deliver(c)

SpecConc == InitConc /\ [][NextConc]_vars

\* the call of slot c has returned the mock generator's result
ReturnedMock(c) == calls[c].pc = "done" /\ calls[c].source = "mock"

\* C11: for one typed input and one set of thresholds the mock result is the
\* same in every call: two calls that returned the mock for the same input
\* hold the same result, whether they reached it in demo mode or after a
\* thrown error, a 401/403, a 500 or a malformed body, and that result is the
\* mock generator's value for the input, which no failure kind enters.
MockIsDeterministic ==
    \A c \in Slots :
        ReturnedMock(c)
            => /\ calls[c].result = MockFor(calls[c].op, config, calls[c].args)
               /\ \A d \in Slots :
                     ReturnedMock(d) /\ calls[d].op = calls[c].op
                         /\ calls[d].args = calls[c].args
                         => calls[d].result = calls[c].result

\* two verifyAgent calls for one agent, one fallen back after a 401 and one
\* after a thrown error, holding the same mock result
MockIsDeterministicWitness ==
    /\ ReturnedMock(1)
    /\ ReturnedMock(2)
    /\ calls[1].op = "verifyAgent"
    /\ calls[2].op = "verifyAgent"
    /\ calls[1].args = calls[2].args
    /\ calls[1].resp.kind = "status"
    /\ calls[1].resp.status = 401
    /\ calls[2].resp.kind = "throw"
    /\ calls[1].result = calls[2].result

\* the result the call produces when it runs alone on the client
AloneResult(k) ==
    IF k.fetches = 0 THEN MockFor(k.op, config, k.args)
    ELSE OutcomeFor(k.op, config, k.args, k.resp).result

\* C17: with several calls in flight and interleaved at their suspension
\* points in any order, every returned result is the one the same call
\* produces alone from its own input, the configuration and its own response;
\* a step of one call changes neither another call nor the client.
CallsAreIndependent ==
    /\ [](\A c \in Slots : calls[c].pc = "done" => calls[c].result = AloneResult(calls[c]))
    /\ [][/\ config' = config
          /\ demoMode' = demoMode
          /\ \A c, d \in Slots : calls'[c] # calls[c] /\ d # c => calls'[d] = calls[d]]_vars

\* a scoreTransaction call returned with its normalized remote result while
\* another scoreTransaction call with another input is still suspended
CallsAreIndependentWitness ==
    /\ calls[1].pc = "done"
    /\ calls[1].op = "scoreTransaction"
    /\ calls[1].source = "remote"
    /\ calls[2].pc = "await"
    /\ calls[2].op = "scoreTransaction"
    /\ calls[2].args # calls[1].args

-----------------------------------------------------------------------------
(* SpecTool: the guardscore_merchant_lookup tool (MerchantLookup.execute)     *)
(* in front of the client: it rejects a request without an identifier, hands *)
(* any other request to lookupMerchant and wraps what comes back.             *)

\* errorResult(message)
errorResult(message) == [kind |-> "CallToolResult", isError |-> TRUE, content |-> message]

\* successResult(data): the data as JSON text
successResult(data) == [kind |-> "CallToolResult", isError |-> FALSE, content |-> data]

\* LacksIdentifier with || in place of &&
LacksSomeIdentifier(a) ==
    FalsyStr(a.merchant_id) \/ FalsyStr(a.merchant_name) \/ FalsyStr(a.website)

\* !args.merchant_id && !args.merchant_name && !args.website
LacksIdentifier(a) ==
    FalsyStr(a.merchant_id) /\ FalsyStr(a.merchant_name) /\ FalsyStr(a.website)

\* execute around what lookupMerchant hands back: successResult(result), or
\* the catch block's logger.error and errorResult when lookupMerchant raised
Wrapped(out) ==
    IF out.source = "raised"
    THEN [out EXCEPT !.result = errorResult("Lookup failed"), !.logs = @ \o <<"error">>]
    ELSE [out EXCEPT !.result = successResult(@)]

\* MerchantLookup.execute up to its return or to lookupMerchant's remote call
execute ==
    \E a \in LookupArgs :
        IF LacksIdentifier(a)
        THEN /\ pc = "idle"
             /\ pc' = "done"
             /\ op' = "MerchantLookup.execute"
             /\ args' = a
             /\ result' = errorResult("At least one of merchant_id, merchant_name, or website is required")
             /\ log' = <<>>
             /\ UNCHANGED <<config, demoMode, resp, fetchCount, mockCount, source, calls>>
        ELSE IF LookupIssuesRemote(demoMode, a)
        THEN Suspend("MerchantLookup.execute", a)
        ELSE RunLocal("MerchantLookup.execute", a,
                      Wrapped(MockOutcome(mockLookupMerchant(config, a), <<>>)))

\* MerchantLookup.execute from lookupMerchant's remote response to its return
executeResume ==
    \E r \in Failures \cup {Json(b) : b \in LookupBodies} :
        Resume("MerchantLookup.execute", r, Wrapped(lookupMerchantOutcome(config, args, r)))

NextTool ==
    \/ execute
    \/ executeResume
    \/ Return

SpecTool == Init /\ [][NextTool]_vars

\* C12: MerchantLookup.execute with merchant_id, merchant_name and website
\* each absent or empty returns an error result without invoking
\* lookupMerchant and without a remote call; with at least one supplied it
\* returns a success result carrying lookupMerchant's result, also when the
\* remote service fails.
ExecuteRejectsMissingIdentifier ==
    /\ pc = "await" =>
          ~(FalsyStr(args.merchant_id) /\ FalsyStr(args.merchant_name) /\ FalsyStr(args.website))
    /\ pc = "done" =>
          IF FalsyStr(args.merchant_id) /\ FalsyStr(args.merchant_name) /\ FalsyStr(args.website)
          THEN /\ result.isError
               /\ fetchCount = 0
               /\ mockCount = 0
               /\ source = "none"
               /\ log = <<>>
          ELSE /\ ~result.isError
               /\ source \in {"mock", "remote"}
               /\ source = "mock" => result.content = mockLookupMerchant(config, args)
               /\ resp.kind \in {"throw", "status", "badjson"} => source = "mock"

\* a request whose merchant_id and merchant_name are empty strings and whose
\* website is absent, rejected by a live client
ExecuteRejectsMissingIdentifierWitness ==
    /\ pc = "done"
    /\ ~demoMode
    /\ args.merchant_id = {<<>>}
    /\ args.merchant_name = {<<>>}
    /\ args.website = {}
    /\ result.isError
    /\ fetchCount = 0

-----------------------------------------------------------------------------
(* SpecTier: the tier classifier on pairs of scores, under every threshold  *)
(* configuration over 0..MaxThreshold, ordered or not.                      *)

TierThresholds ==
    [autoDeclineThreshold : 0..MaxThreshold, highRiskThreshold : 0..MaxThreshold,
     mediumRiskThreshold : 0..MaxThreshold]

TierScores == (0 - 1)..(MaxThreshold + 1)

\* the scores around the default thresholds 15/30/60
BoundaryScores == {14, 15, 16, 29, 30, 31, 59, 60, 61}

InitTier ==
    \E th \in TierThresholds \cup {DefaultThresholds} : Constructed(MakeConfig("demo", th))

\* this.riskLevel(score) on one score
Classify ==
    /\ pc = "idle"
    /\ \E s \in TierScores \cup BoundaryScores :
         result' = [kind |-> "tier", s |-> s, t |-> riskLevel(config, s)]
    /\ UNCHANGED <<config, demoMode, pc, op, args, resp, fetchCount, mockCount,
                   source, log, calls>>

ClassifyPair ==
    /\ pc = "idle"
    /\ \E s1 \in TierScores, s2 \in TierScores :
         result' = [kind |-> "tiers", s1 |-> s1, s2 |-> s2,
                    t1 |-> riskLevel(config, s1), t2 |-> riskLevel(config, s2)]
    /\ UNCHANGED <<config, demoMode, pc, op, args, resp, fetchCount, mockCount,
                   source, log, calls>>

NextTier ==
    \/ ClassifyPair
    \/ Classify

SpecTier == InitTier /\ [][NextTier]_vars

\* C8: under any thresholds, ordered or not, a lower score is never classified
\* as less risky than a higher one (order critical > high > medium > low).
TierMonotone ==
    result.kind = "tiers" /\ result.s1 < result.s2
        => Riskiness(result.t1) >= Riskiness(result.t2)

\* two scores falling in different tiers under thresholds that violate the ordering
TierMonotoneWitness ==
    /\ result.kind = "tiers"
    /\ config.autoDeclineThreshold > config.highRiskThreshold
    /\ config.highRiskThreshold > config.mediumRiskThreshold
    /\ result.s1 < result.s2
    /\ result.t1 = "critical"
    /\ result.t2 = "low"

-----------------------------------------------------------------------------
(* SpecMock: a client under the default thresholds, in demo mode or with a   *)
(* live key whose VAMP analysis calls all fail.  Every call returns what its *)
(* mock generator computes.  The identifiers are the empty string and the    *)
(* one-character strings over IdCodes, so that the checksum takes every      *)
(* residue the generators reduce it to (mod 20, 25, 30, 45 and 55), and the  *)
(* velocity check is given every count of MockCounts.                        *)

IdCodes == 32..131

MockIds == {<<>>} \cup {<<c>> : c \in IdCodes}

MockCounts == (0 - 3)..200

MockVerifyArgs ==
    [agent_id : MockIds,
     requesting_action : {"purchase", "transfer_funds"},
     transaction_amount : Opt({6000})]

MockLookupArgs ==
    [merchant_id : Opt(MockIds),
     merchant_name : Opt({<<>>, <<65, 49>>}),
     website : Opt({<<77>>})]

MockVelocityArgs ==
    [entity_id : MockIds,
     time_window : {"24h"},
     transaction_count : Opt(MockCounts)]

MockCrossRailArgs ==
    [entity_id : MockIds,
     payment_rails : {<<"card", "crypto">>, <<"card", "card">>, <<"ach", "wire">>,
                      <<"card", "stablecoin", "crypto">>, <<"wire", "card", "wire">>,
                      <<"card", "stablecoin", "ach">>}]

MockVampArgs == [merchant_id : MockIds]

lookupMerchantDemo ==
    /\ pc = "idle"
    /\ demoMode
    /\ \E a \in MockLookupArgs :
         RunLocal("lookupMerchant", a, MockOutcome(mockLookupMerchant(config, a), <<>>))

verifyAgentDemo ==
    /\ pc = "idle"
    /\ demoMode
    /\ \E a \in MockVerifyArgs :
         RunLocal("verifyAgent", a, MockOutcome(mockVerifyAgent(config, a), <<>>))

predictDisputeDemo ==
    /\ pc = "idle"
    /\ demoMode
    /\ \E a \in DisputeArgs :
         RunLocal("predictDispute", a, MockOutcome(mockPredictDispute(config, a), <<>>))

checkVelocityDemo ==
    /\ pc = "idle"
    /\ \E a \in MockVelocityArgs :
         RunLocal("checkVelocity", a, MockOutcome(mockCheckVelocity(config, a), <<>>))

checkCrossRailDemo ==
    /\ pc = "idle"
    /\ demoMode
    /\ \E a \in MockCrossRailArgs :
         RunLocal("checkCrossRail", a, MockOutcome(mockCheckCrossRail(config, a), <<>>))

analyzeVAMPMock ==
    /\ pc = "idle"
    /\ \E a \in MockVampArgs :
         IF ~demoMode
         THEN Suspend("analyzeVAMP", a)
         ELSE RunLocal("analyzeVAMP", a, MockOutcome(mockAnalyzeVAMP(config, a), <<>>))

\* the remote call of analyzeVAMP throws, answers a non-2xx status or a body
\* that does not parse
analyzeVAMPFailed ==
    /\ pc = "await"
    /\ \E r \in Failures :
         Resume("analyzeVAMP", r, analyzeVAMPOutcome(config, args, r))

InitMock ==
    \E key \in {"demo", "sk_live_1"} :
        Constructed(MakeConfig(key, DefaultThresholds))

NextMock ==
    \/ lookupMerchantDemo
    \/ verifyAgentDemo
    \/ predictDisputeDemo
    \/ checkVelocityDemo
    \/ checkCrossRailDemo
    \/ analyzeVAMPMock
    \/ analyzeVAMPFailed
    \/ Return

SpecMock == InitMock /\ [][NextMock]_vars

\* a call of operation o has returned what its mock generator computed
MockReturned(o) == pc = "done" /\ op = o /\ source = "mock"

\* C21 as stated: in mock agent verification trust_score = 50 + (checksum(agent_id)
\* mod 45), and authorization_level and spending_limit share the cut points 85,
\* 70 and 50: full with 10000 above 85, standard with 1000 in (70, 85], basic
\* with 100 in (50, 70], none with 100 at 50 or below.
AgentTiersShareCutPoints ==
    MockReturned("verifyAgent")
        => LET t == result.trust_score
           IN  /\ t = 50 + (Checksum(args.agent_id) % 45)
               /\ <<result.authorization_level, result.spending_limit>> =
                    IF t > 85 THEN <<"full", 10000>>
                    ELSE IF t > 70 THEN <<"standard", 1000>>
                    ELSE IF t > 50 THEN <<"basic", 100>>
                    ELSE <<"none", 100>>

\* C21: in mock agent verification trust_score = 50 + (checksum(agent_id) mod
\* 45); authorization_level is a step function of trust_score with cut points
\* 85, 70 and 50 (full, standard, basic, none), and spending_limit is a step
\* function of trust_score with cut points 80 and 60: 10000 above 80, 1000 in
\* (60, 80], 100 at 60 or below.
AgentTiersOwnCutPoints ==
    MockReturned("verifyAgent")
        => LET t == result.trust_score
           IN  /\ t = 50 + (Checksum(args.agent_id) % 45)
               /\ result.authorization_level =
                    (IF t > 85 THEN "full"
                     ELSE IF t > 70 THEN "standard"
                     ELSE IF t > 50 THEN "basic" ELSE "none")
               /\ result.spending_limit =
                    (IF t > 80 THEN 10000 ELSE IF t > 60 THEN 1000 ELSE 100)

\* an agent of trust 82: standard authorization with a spending limit of 10000
AgentTiersOwnCutPointsWitness ==
    /\ MockReturned("verifyAgent")
    /\ result.trust_score = 82
    /\ result.authorization_level = "standard"
    /\ result.spending_limit = 10000

\* C22: in mock dispute prediction risk_level follows the probability cut
\* points (> 0.15 critical, > 0.10 high, > 0.05 medium, else low), and
\* predicted_dispute_type is null iff the clamped probability is <= 0.05;
\* otherwise it is subscription_canceled if is_recurring, else
\* product_not_as_described if the category is digital_goods in whatever case
\* (the sense in which it earns the +0.05 adjustment), else fraud.
DisputeTypeFollowsCategory ==
    MockReturned("predictDispute")
        => LET p == result.dispute_probability
           IN  /\ result.risk_level =
                    (IF p > 1500 THEN "critical"
                     ELSE IF p > 1000 THEN "high"
                     ELSE IF p > 500 THEN "medium" ELSE "low")
               /\ result.predicted_dispute_type = "null" <=> p <= 500
               /\ p > 500 =>
                    result.predicted_dispute_type =
                        (IF args.is_recurring = {TRUE} THEN "subscription_canceled"
                         ELSE IF ToLower(args.merchant_category) = "digital_goods"
                         THEN "product_not_as_described"
                         ELSE "fraud")

\* C23: in mock merchant lookup the identifier is merchant_id if non-empty,
\* else merchant_name, else website, else "unknown"; guardscore = 40 +
\* (checksum(identifier) mod 55), within 40..94; verification_status and
\* vamp_status share the cut points 70 and 50, so the pair is (verified,
\* standard) above 70, (pending, monitored) in (50, 70], (unverified,
\* excessive) at 50 or below; chargeback_rate = 0.10 + (100 - guardscore) * 0.02.
MockMerchantFollowsFormulae ==
    MockReturned("lookupMerchant")
        => LET given(x) == x # {} /\ x # {<<>>}
               id == IF given(args.merchant_id) THEN Val(args.merchant_id)
                     ELSE IF given(args.merchant_name) THEN Val(args.merchant_name)
                     ELSE IF given(args.website) THEN Val(args.website)
                     ELSE <<117, 110, 107, 110, 111, 119, 110>>
               g == result.guardscore
           IN  /\ g = 40 + (Checksum(id) % 55)
               /\ g >= 40 /\ g <= 94
               /\ <<result.verification_status, result.vamp_status>> =
                    (IF g > 70 THEN <<"verified", "standard">>
                     ELSE IF g > 50 THEN <<"pending", "monitored">>
                     ELSE <<"unverified", "excessive">>)
               \* in hundredths of a percent point
               /\ result.chargeback_rate = 10 + (100 - g) * 2

\* a lookup with an empty merchant_id and the name "A1": the name is the
\* identifier, the score is 40 + (114 mod 55) = 44
MockMerchantFollowsFormulaeWitness ==
    /\ MockReturned("lookupMerchant")
    /\ args.merchant_id = {<<>>}
    /\ args.merchant_name = {<<65, 49>>}
    /\ result.guardscore = 44
    /\ result.verification_status = "unverified"
    /\ result.vamp_status = "excessive"
    /\ result.chargeback_rate = 122

\* C24: in checkVelocity baseline_average = 15 + (checksum(entity_id) mod 30),
\* hence at least 15; transactions_in_window is the supplied transaction_count
\* whenever one is supplied (0 included), else baseline + (checksum mod 20) - 5;
\* anomaly_detected holds iff 2 * current > 5 * baseline; velocity_score is
\* 100 - (current / baseline - 1) * 30 clamped to 0..100 and rounded to a
\* nearest integer (either neighbour where the clamped value is an exact half).
VelocityFollowsFormulae ==
    MockReturned("checkVelocity")
        => LET h == Checksum(args.entity_id)
               b == result.baseline_average
               c == result.transactions_in_window
               \* 100 - (c / b - 1) * 30, times b
               exact == 130 * b - 30 * c
               clamped == IF exact < 0 THEN 0 ELSE IF exact > 100 * b THEN 100 * b ELSE exact
           IN  /\ b = 15 + (h % 30)
               /\ b >= 15
               /\ c = (IF args.transaction_count # {} THEN Val(args.transaction_count)
                       ELSE b + (h % 20) - 5)
               /\ result.anomaly_detected <=> 2 * c > 5 * b
               \* the nearest integer n: |n * b - clamped| <= b / 2
               /\ 2 * (result.velocity_score * b - clamped) <= b
               /\ 2 * (clamped - result.velocity_score * b) <= b
               /\ result.velocity_score \in 0..100

\* a supplied count of 0 for an entity of baseline 20: the count is taken as
\* given and the score is clamped to 100
VelocityFollowsFormulaeWitness ==
    /\ MockReturned("checkVelocity")
    /\ args.transaction_count = {0}
    /\ result.baseline_average = 20
    /\ result.transactions_in_window = 0
    /\ result.velocity_score = 100
    /\ ~result.anomaly_detected

\* C25: in mock cross-rail analysis each requested rail gets the score 50 +
\* (checksum(entity_id + rail) mod 45); the rail-hopping pattern is raised iff
\* the largest and the smallest rail score differ by more than 30, the
\* card+crypto pattern iff card and crypto are both among the requested rails,
\* the 3+ rail pattern iff the request lists at least three rails; and
\* cross_rail_risk_score is the average of the rail scores minus 10 per
\* pattern raised, floored at 0 and rounded to a nearest integer.
MockCrossRailFollowsFormulae ==
    MockReturned("checkCrossRail")
        => LET rails == args.payment_rails
               requested == {rails[i] : i \in 1..Len(rails)}
               scores == result.rail_scores
               raised == {result.suspicious_patterns[i] :
                              i \in 1..Len(result.suspicious_patterns)}
               n == Cardinality(DOMAIN scores)
               \* (average - 10 * patterns) * n
               exact == SumOver(scores, DOMAIN scores)
                            - 10 * Len(result.suspicious_patterns) * n
               floored == IF exact < 0 THEN 0 ELSE exact
           IN  /\ DOMAIN scores = requested
               /\ \A r \in requested :
                    scores[r] = 50 + (Checksum(args.entity_id \o RailChars(r)) % 45)
               /\ "rail_hopping" \in raised
                    <=> \E r1 \in requested, r2 \in requested : scores[r1] - scores[r2] > 30
               /\ "card_crypto_mixing" \in raised
                    <=> "card" \in requested /\ "crypto" \in requested
               /\ "three_plus_rails" \in raised <=> Len(rails) >= 3
               /\ Cardinality(raised) = Len(result.suspicious_patterns)
               /\ 2 * (result.cross_rail_risk_score * n - floored) <= n
               /\ 2 * (floored - result.cross_rail_risk_score * n) <= n

\* the rails wire, card, wire requested: two rail scores, the 3+ rail pattern
\* raised for the three rails listed
MockCrossRailFollowsFormulaeWitness ==
    /\ MockReturned("checkCrossRail")
    /\ args.payment_rails = <<"wire", "card", "wire">>
    /\ DOMAIN result.rail_scores = {"wire", "card"}
    /\ result.suspicious_patterns # <<>>
    /\ result.suspicious_patterns[Len(result.suspicious_patterns)] = "three_plus_rails"

\* the statements of C26 that do not concern the number of recommended
\* actions: fraud_rate = 0.10 + (checksum mod 20) * 0.05; vamp_status is
\* standard iff fraud_rate < 0.65, monitored iff 0.65 <= fraud_rate < 0.90,
\* excessive iff fraud_rate >= 0.90, and never at_risk;
\* visa_threshold_distance is non-negative: 0.65 - fraud_rate when standard,
\* 0.90 - fraud_rate when monitored, 0 when excessive.  (Hundredths.)
VampStatusAndDistance ==
    LET f == result.fraud_rate
    IN  /\ f = 10 + (Checksum(args.merchant_id) % 20) * 5
        /\ result.vamp_status \in {"standard", "monitored", "excessive"}
        /\ result.vamp_status = "standard" <=> f < 65
        /\ result.vamp_status = "monitored" <=> 65 <= f /\ f < 90
        /\ result.vamp_status = "excessive" <=> f >= 90
        /\ result.visa_threshold_distance >= 0
        /\ result.visa_threshold_distance =
             (IF result.vamp_status = "standard" THEN 65 - f
              ELSE IF result.vamp_status = "monitored" THEN 90 - f ELSE 0)

\* C26 as stated: in mock VAMP analysis (demo mode or after a remote call that
\* throws) the status and distance are as above and recommended_actions has no
\* entries when standard, exactly two when monitored, exactly four (the first
\* marked URGENT) when excessive.
MockVampFollowsFormulae ==
    MockReturned("analyzeVAMP") /\ (demoMode \/ resp.kind = "throw")
        => /\ VampStatusAndDistance
           /\ Len(result.recommended_actions) =
                (IF result.vamp_status = "standard" THEN 0
                 ELSE IF result.vamp_status = "monitored" THEN 2 ELSE 4)
           /\ result.vamp_status = "excessive"
                => result.recommended_actions[1] = "URGENT_immediate_remediation"

\* C26: in mock VAMP analysis (demo mode or after a remote call that throws)
\* the status and distance are as above and recommended_actions has no entries
\* when standard, exactly two when monitored, exactly four (the first marked
\* URGENT) when excessive, followed by one further entry, the refund-policy
\* review, exactly when dispute_rate = 0.20 + (checksum mod 25) * 0.04 exceeds
\* 0.50.
MockVampFollowsFormulaePlusDisputeAction ==
    MockReturned("analyzeVAMP") /\ (demoMode \/ resp.kind = "throw")
        => LET acts == result.recommended_actions
               tiered == IF result.vamp_status = "standard" THEN 0
                         ELSE IF result.vamp_status = "monitored" THEN 2 ELSE 4
               extra == IF result.dispute_rate > 50 THEN 1 ELSE 0
           IN  /\ VampStatusAndDistance
               /\ result.dispute_rate = 20 + (Checksum(args.merchant_id) % 25) * 4
               /\ Len(acts) = tiered + extra
               /\ extra = 1 => acts[Len(acts)] = "review_refund_policy"
               /\ \A i \in 1..tiered : acts[i] # "review_refund_policy"
               /\ result.vamp_status = "excessive"
                    => acts[1] = "URGENT_immediate_remediation"

\* after a remote call that threw, a merchant at the boundary fraud rate 0.65:
\* monitored, at distance 0.25, with the two monitored actions and the
\* refund-policy review
MockVampFollowsFormulaePlusDisputeActionWitness ==
    /\ MockReturned("analyzeVAMP")
    /\ ~demoMode
    /\ resp.kind = "throw"
    /\ result.fraud_rate = 65
    /\ result.vamp_status = "monitored"
    /\ result.visa_threshold_distance = 25
    /\ Len(result.recommended_actions) = 3

\* C29: in checkVelocity, when no transaction_count is supplied the synthetic
\* count never triggers an anomaly: anomaly_detected is false and
\* velocity_score >= 55 for every entity_id; an anomaly is reported only when
\* the caller supplies transaction_count, and then velocity_score <= 55.
SyntheticCountIsNeverAnomalous ==
    MockReturned("checkVelocity")
        => /\ args.transaction_count = {}
                => ~result.anomaly_detected /\ result.velocity_score >= 55
           /\ result.anomaly_detected
                => args.transaction_count # {} /\ result.velocity_score <= 55

\* no count supplied for an entity of checksum 39: the synthetic count 38
\* against the baseline 24 is the largest ratio a synthetic count reaches; no
\* anomaly, score 83
SyntheticCountIsNeverAnomalousWitness ==
    /\ MockReturned("checkVelocity")
    /\ args.transaction_count = {}
    /\ result.baseline_average = 24
    /\ result.transactions_in_window = 38
    /\ ~result.anomaly_detected
    /\ result.velocity_score = 83

====
